---- MODULE Spec2Model ----
(***************************************************************************)
(* MockCall quality-analysis engine: the S4 rubric analyzer                *)
(* (src/src/s4QualityAnalyzer.js), the call-context tracker                *)
(* (RealTimeQualityFeedback, src/unnamed/part_002) and the call session    *)
(* state machine (CallFlowManager, src/src/callFlowManager.js).            *)
(*                                                                         *)
(* Texts are TLA+ strings; toLowerCase, includes, trim and the regular     *)
(* expressions of the source are computed character by character.          *)
(***************************************************************************)
EXTENDS Integers, Sequences, FiniteSets, TLC

(***************************************************************************)
(* String primitives of the JavaScript runtime used by the source.         *)
(***************************************************************************)
UpperLetters == "ABCDEFGHIJKLMNOPQRSTUVWXYZ"

LowerLetters == "abcdefghijklmnopqrstuvwxyz"

Digits == "0123456789"

CharAt(s, i) == SubSeq(s, i, i)

\* String.prototype.includes
includes(s, sub) ==
  \E i \in 1..(Len(s) - Len(sub) + 1) : SubSeq(s, i, i + Len(sub) - 1) = sub

LowerOfUpper ==
  [A |-> "a", B |-> "b", C |-> "c", D |-> "d", E |-> "e", F |-> "f", G |-> "g",
   H |-> "h", I |-> "i", J |-> "j", K |-> "k", L |-> "l", M |-> "m", N |-> "n",
   O |-> "o", P |-> "p", Q |-> "q", R |-> "r", S |-> "s", T |-> "t", U |-> "u",
   V |-> "v", W |-> "w", X |-> "x", Y |-> "y", Z |-> "z"]

LowerChar(c) == IF c \in DOMAIN LowerOfUpper THEN LowerOfUpper[c] ELSE c

RECURSIVE toLowerCase(_)
\* String.prototype.toLowerCase (ASCII letters), a character at a time; the
\* string is split in halves to keep the recursion shallow.
toLowerCase(s) ==
  IF Len(s) = 0 THEN ""
  ELSE IF Len(s) = 1 THEN LowerChar(s)
  ELSE LET h == Len(s) \div 2
       IN  toLowerCase(SubSeq(s, 1, h)) \o toLowerCase(SubSeq(s, h + 1, Len(s)))

IsWhiteSpace(c) == c \in {" ", "\t", "\n", "\r"}

\* String.prototype.trim: from the first to the last non-blank character
trim(s) ==
  LET solid == {i \in 1..Len(s) : ~IsWhiteSpace(CharAt(s, i))}
  IN  IF solid = {} THEN ""
      ELSE SubSeq(s, CHOOSE i \in solid : \A j \in solid : i <= j,
                     CHOOSE i \in solid : \A j \in solid : i >= j)

\* \w of a regular expression
IsWordChar(c) ==
  \/ includes(LowerLetters, c)
  \/ includes(UpperLetters, c)
  \/ includes(Digits, c)
  \/ c = "_"

\* /\b(w)\b/i tested on a string whose lower-case form is ls: w starts and
\* ends with a word character, so each \b asks for a non-word character, or
\* the end of the string, next to it.
MatchesWord(ls, w) ==
  \E i \in 1..(Len(ls) - Len(w) + 1) :
     /\ SubSeq(ls, i, i + Len(w) - 1) = w
     /\ (i = 1 \/ ~IsWordChar(CharAt(ls, i - 1)))
     /\ (i + Len(w) - 1 = Len(ls) \/ ~IsWordChar(CharAt(ls, i + Len(w))))

\* Array.prototype.some / filter(...).length over a sequence of phrases
SomeIncluded(phrases, s) == \E k \in 1..Len(phrases) : includes(s, phrases[k])

RECURSIVE SumSeq(_)
SumSeq(q) == IF q = <<>> THEN 0 ELSE Head(q) + SumSeq(Tail(q))

RECURSIVE Flatten(_)
Flatten(qq) == IF qq = <<>> THEN <<>> ELSE Head(qq) \o Flatten(Tail(qq))

(***************************************************************************)
(* S4_SCORING_GUIDELINES.  A criterion that defines no keywords (only      *)
(* indicators) has the empty keyword sequence: the source counts 0 matches *)
(* for it and divides by (keywords?.length || 1).                          *)
(***************************************************************************)
Guideline_s1 ==
  [name |-> "START", maxPoints |-> 22, criteria |-> <<
    [name |-> "Greeting", maxScore |-> 3,
     keywords |-> <<"comcast", "hello", "hi", "good morning", "good afternoon", "how can i help", "assist">>,
     failureConditions |-> <<"incomplete greeting", "rushed", "no company name">>],
    [name |-> "Reflect, Relate, Empathize", maxScore |-> 15,
     keywords |-> <<"understand", "sorry", "apologize", "help", "resolve", "concern", "frustration">>,
     failureConditions |-> <<"vague response", "trap words", "no ownership", "dismissive">>],
    [name |-> "Set Agenda / Auth / Plant Seed", maxScore |-> 4,
     keywords |-> <<"verify", "confirm", "account", "review", "check", "authenticate">>,
     failureConditions |-> <<"no agenda", "no authentication", "no account review mention">>] >>]

Guideline_s2 ==
  [name |-> "SOLVE", maxPoints |-> 27, criteria |-> <<
    [name |-> "Obtain Info / Probe", maxScore |-> 7,
     keywords |-> <<"what", "when", "how", "why", "tell me", "explain", "describe">>,
     failureConditions |-> <<"assumptions", "no probing", "no opportunity for customer to describe">>],
    [name |-> "Resolve / Address Issue(s)", maxScore |-> 14,
     keywords |-> <<"solution", "fix", "resolve", "because", "reason", "prevent", "avoid">>,
     failureConditions |-> <<"incomplete resolution", "insufficient info", "no confirmation">>],
    [name |-> "Build Value / Enhance", maxScore |-> 6,
     keywords |-> <<"email", "contact", "benefits", "features", "value", "service">>,
     failureConditions |-> <<"no email capture", "no value building">>] >>]

\* Overcome Objections worth 5 where the section allows 20 in all
Guideline_s3_FivePointObjections ==
  [name |-> "SELL", maxPoints |-> 20, criteria |-> <<
    [name |-> "Transition to Relevant Offer", maxScore |-> 6,
     keywords |-> <<"also", "additionally", "by the way", "speaking of", "since", "needs">>,
     failureConditions |-> <<"transitions too early", "no bridging", "abrupt transition">>],
    [name |-> "Present Offer", maxScore |-> 6,
     keywords |-> <<"recommend", "suggest", "offer", "benefits", "save", "upgrade", "enhance">>,
     failureConditions |-> <<"only mentions price", "no benefits", "generic offer">>],
    [name |-> "Overcome Objections", maxScore |-> 5,
     keywords |-> <<"understand", "however", "but", "consider", "what if", "alternative">>,
     failureConditions |-> <<"poor attempt", "aggressive", "dismissive">>],
    [name |-> "Proactively Ask for the Sale", maxScore |-> 4,
     keywords |-> <<"would you like", "shall we", "can we", "today", "now", "which option">>,
     failureConditions |-> <<"discusses solution but doesn't ask">>] >>]

Guideline_s3 ==
  [name |-> "SELL", maxPoints |-> 20, criteria |-> <<
    [name |-> "Transition to Relevant Offer", maxScore |-> 6,
     keywords |-> <<"also", "additionally", "by the way", "speaking of", "since", "needs">>,
     failureConditions |-> <<"transitions too early", "no bridging", "abrupt transition">>],
    [name |-> "Present Offer", maxScore |-> 6,
     keywords |-> <<"recommend", "suggest", "offer", "benefits", "save", "upgrade", "enhance">>,
     failureConditions |-> <<"only mentions price", "no benefits", "generic offer">>],
    [name |-> "Overcome Objections", maxScore |-> 4,
     keywords |-> <<"understand", "however", "but", "consider", "what if", "alternative">>,
     failureConditions |-> <<"poor attempt", "aggressive", "dismissive">>],
    [name |-> "Proactively Ask for the Sale", maxScore |-> 4,
     keywords |-> <<"would you like", "shall we", "can we", "today", "now", "which option">>,
     failureConditions |-> <<"discusses solution but doesn't ask">>] >>]

Guideline_s4 ==
  [name |-> "SUMMARIZE", maxPoints |-> 14, criteria |-> <<
    [name |-> "Summarize Actions", maxScore |-> 7,
     keywords |-> <<"summary", "next steps", "will", "should", "expect", "follow up">>,
     failureConditions |-> <<"no recap", "no next steps", "unclear resolution">>],
    [name |-> "Close Contact", maxScore |-> 4,
     keywords |-> <<"anything else", "additional", "thank you", "appreciate", "have a great">>,
     failureConditions |-> <<"abrupt ending", "no additional assistance offer", "impersonal">>],
    [name |-> "Documentation", maxScore |-> 3,
     keywords |-> <<"document", "note", "record", "file">>,
     failureConditions |-> <<"missing required info">>] >>]

Guideline_behaviors ==
  [name |-> "BEHAVIORS", maxPoints |-> 17, criteria |-> <<
    [name |-> "Tone, Confidence & Clarity", maxScore |-> 3,
     keywords |-> <<>>,
     failureConditions |-> <<"unprofessional tone", "unclear speech", "rushed delivery">>],
    [name |-> "Active Listening", maxScore |-> 3,
     keywords |-> <<>>,
     failureConditions |-> <<"interrupts customer", "ignores customer input", "no verbal cues">>],
    [name |-> "Contact Management", maxScore |-> 3,
     keywords |-> <<>>,
     failureConditions |-> <<"excessive dead air", "long holds without explanation">>],
    [name |-> "Acknowledge / Take Responsibility", maxScore |-> 4,
     keywords |-> <<"I will", "we can", "let me", "I'll take care", "my responsibility">>,
     failureConditions |-> <<"blames customer", "negative language", "no ownership">>],
    [name |-> "Build Rapport / Demonstrate Concern", maxScore |-> 4,
     keywords |-> <<"understand", "appreciate", "concern", "important", "personally">>,
     failureConditions |-> <<"robotic responses", "ignores emotions", "impersonal">>] >>]

SectionKeys == <<"s1", "s2", "s3", "s4", "behaviors">>

S4_SCORING_GUIDELINES ==
  [s1 |-> Guideline_s1, s2 |-> Guideline_s2, s3 |-> Guideline_s3,
   s4 |-> Guideline_s4, behaviors |-> Guideline_behaviors]

(***************************************************************************)
(* A call context is a JavaScript object: a function from field names to   *)
(* values, in which a field may be absent.                                 *)
(***************************************************************************)
EmptyObject == [k \in {} |-> 0]

Has(obj, k) == k \in DOMAIN obj

\* Object.assign(target, source)
ObjectAssign(target, source) ==
  [k \in (DOMAIN target) \cup (DOMAIN source) |->
     IF k \in DOMAIN source THEN source[k] ELSE target[k]]

(***************************************************************************)
(* checkAutoFailBehaviors                                                  *)
(***************************************************************************)
rudePatterns ==
  << <<"shut up", "stupid", "idiot", "moron">>,
     <<"fuck", "shit", "damn", "hell">>,
     <<"whatever", "don't care", "not my problem">> >>

IsRude(message) ==
  LET lowerMessage == toLowerCase(message) IN
  \E p \in 1..Len(rudePatterns) :
     \E a \in 1..Len(rudePatterns[p]) : MatchesWord(lowerMessage, rudePatterns[p][a])

IsCallAvoidance(message) ==
  LET lowerMessage == toLowerCase(message) IN
  includes(lowerMessage, "hold on") /\ includes(lowerMessage, "personal")

IsInappropriateTransfer(message) ==
  LET lowerMessage == toLowerCase(message) IN
  \/ includes(lowerMessage, "call another department")
  \/ includes(lowerMessage, "not my department")

NoAutoFail == [detected |-> FALSE, reason |-> "", type |-> ""]

\* only the rudeness patterns checked
checkAutoFailBehaviors_RudenessOnly(message) ==
  IF IsRude(message)
  THEN [detected |-> TRUE,
        reason |-> "Rudeness detected: Unprofessional language or attitude",
        type |-> "rudeness"]
  ELSE NoAutoFail

\* the transfer phrases looked for before the call avoidance phrases
checkAutoFailBehaviors_TransferFirst(message) ==
  IF IsRude(message)
  THEN [detected |-> TRUE,
        reason |-> "Rudeness detected: Unprofessional language or attitude",
        type |-> "rudeness"]
  ELSE IF IsInappropriateTransfer(message)
  THEN [detected |-> TRUE,
        reason |-> "Inappropriate transfer: Directing customer to other departments without assistance",
        type |-> "inappropriateTransfer"]
  ELSE IF IsCallAvoidance(message)
  THEN [detected |-> TRUE,
        reason |-> "Call avoidance: Personal activities during call",
        type |-> "callAvoidance"]
  ELSE NoAutoFail

checkAutoFailBehaviors(message) ==
  IF IsRude(message)
  THEN [detected |-> TRUE,
        reason |-> "Rudeness detected: Unprofessional language or attitude",
        type |-> "rudeness"]
  ELSE IF IsCallAvoidance(message)
  THEN [detected |-> TRUE,
        reason |-> "Call avoidance: Personal activities during call",
        type |-> "callAvoidance"]
  ELSE IF IsInappropriateTransfer(message)
  THEN [detected |-> TRUE,
        reason |-> "Inappropriate transfer: Directing customer to other departments without assistance",
        type |-> "inappropriateTransfer"]
  ELSE NoAutoFail

(***************************************************************************)
(* analyzeCriterion and checkFailureCondition                              *)
(***************************************************************************)
checkFailureCondition(condition, message, callContext) ==
  CASE condition = "incomplete greeting" ->
         ~includes(message, "comcast") \/ ~includes(message, "help")
    [] condition = "rushed" -> Len(message) < 20
    [] condition = "no company name" -> ~includes(message, "comcast")
    [] condition = "vague response" ->
         Len(message) < 30 /\ ~includes(message, "understand")
    [] condition = "no ownership" ->
         /\ ~includes(message, "i will")
         /\ ~includes(message, "let me")
         /\ ~includes(message, "i can")
    [] condition = "assumptions" ->
         \/ includes(message, "probably")
         \/ includes(message, "maybe")
         \/ includes(message, "i think")
    [] condition = "no probing" ->
         /\ ~includes(message, "?")
         /\ ~includes(message, "tell me")
         /\ ~includes(message, "what")
    [] OTHER -> FALSE

\* a criterion that defines no keywords counted as matched once
keywordMatchesOf_OneWithoutKeywords(criterion, lowerMessage) ==
  IF Len(criterion.keywords) = 0 THEN 1
  ELSE Cardinality({k \in 1..Len(criterion.keywords) :
                      includes(lowerMessage, toLowerCase(criterion.keywords[k]))})

\* criterion.keywords.filter(k => lowerMessage.includes(k.toLowerCase())).length
keywordMatchesOf(criterion, lowerMessage) ==
  Cardinality({k \in 1..Len(criterion.keywords) :
                 includes(lowerMessage, toLowerCase(criterion.keywords[k]))})

failureDetectedIn(criterion, lowerMessage, callContext) ==
  \E k \in 1..Len(criterion.failureConditions) :
     \/ includes(lowerMessage, toLowerCase(criterion.failureConditions[k]))
     \/ checkFailureCondition(criterion.failureConditions[k], lowerMessage, callContext)

\* Math.floor for Math.ceil
PartialScore_Floor(maxScore) == (3 * maxScore) \div 5

\* 1.6 for 0.6
PartialScore_OverOne(maxScore) == (8 * maxScore + 4) \div 5

\* Math.ceil(maxScore * 0.6): 0.6 * maxScore = 3 * maxScore / 5
PartialScore(maxScore) == (3 * maxScore + 4) \div 5

\* keywordRatio >= 0.5, with keywordRatio = matches / (keywords?.length || 1)
RatioAtLeastHalf(matches, criterion) ==
  LET k == IF Len(criterion.keywords) = 0 THEN 1 ELSE Len(criterion.keywords)
  IN  2 * matches >= k

analyzeCriterion(criterion, lowerMessage, callContext) ==
  LET keywordMatches == keywordMatchesOf(criterion, lowerMessage)
      failureDetected == failureDetectedIn(criterion, lowerMessage, callContext)
      base == [name |-> criterion.name, score |-> 0, maxScore |-> criterion.maxScore,
               justification |-> "", strength |-> "", improvement |-> ""]
  IN  IF failureDetected
      THEN [base EXCEPT !.justification = "Failed", !.improvement = "Improve"]
      ELSE IF keywordMatches > 0
      THEN IF RatioAtLeastHalf(keywordMatches, criterion) \/ keywordMatches >= 2
           THEN [base EXCEPT !.score = criterion.maxScore,
                             !.justification = "Excellent", !.strength = "Strong"]
           ELSE [base EXCEPT !.score = PartialScore(criterion.maxScore),
                             !.justification = "Good", !.strength = "Adequate"]
      ELSE [base EXCEPT !.justification = "Missing", !.improvement = "Add"]

(***************************************************************************)
(* isSellSectionApplicable and analyzeSectionResponse                      *)
(***************************************************************************)
irateIndicators == <<"angry", "furious", "terrible", "awful", "hate", "worst">>

\* the customer's sentiment read from the context, authenticated and
\* optedOutOfSales read as plain truth values
isSellSectionApplicable_ByContext(customerMessage, callContext) ==
  LET isIrate == Has(callContext, "customerType") /\ callContext.customerType = "irate"
      isAuthenticated == Has(callContext, "authenticated") /\ callContext.authenticated
      hasOptedOut == Has(callContext, "optedOutOfSales") /\ callContext.optedOutOfSales
  IN  ~isIrate /\ isAuthenticated /\ ~hasOptedOut

isSellSectionApplicable(customerMessage, callContext) ==
  LET lowerCustomerMessage == toLowerCase(customerMessage)
      isIrate == SomeIncluded(irateIndicators, lowerCustomerMessage)
      \* callContext.authenticated !== false
      isAuthenticated ==
        ~(Has(callContext, "authenticated") /\ callContext.authenticated = FALSE)
      \* callContext.optedOutOfSales === true
      hasOptedOut ==
        Has(callContext, "optedOutOfSales") /\ callContext.optedOutOfSales = TRUE
  IN  ~isIrate /\ isAuthenticated /\ ~hasOptedOut

NotApplicableCriterion(section) ==
  [name |-> "Section Not Applicable", score |-> "N/A",
   maxScore |-> section.maxPoints,
   justification |-> "Customer is irate, not authenticated, or opted out of sales"]

\* analyzeSectionResponse once the section has been looked up in the catalog
analyzeSectionOf(section, sectionKey, agentMessage, customerMessage, callContext) ==
  LET lowerMessage == toLowerCase(agentMessage)
      applicable ==
        IF sectionKey = "s3"
        THEN isSellSectionApplicable(customerMessage, callContext) ELSE TRUE
      crit == [k \in 1..Len(section.criteria) |->
                 analyzeCriterion(section.criteria[k], lowerMessage, callContext)]
      scored == {k \in 1..Len(crit) : crit[k].score > 0}
  IN  IF ~applicable
      THEN [name |-> section.name, score |-> 0, maxScore |-> section.maxPoints,
            criteria |-> <<NotApplicableCriterion(section)>>,
            strengths |-> <<>>, improvements |-> <<>>, applicable |-> FALSE]
      ELSE [name |-> section.name,
            score |-> SumSeq([k \in 1..Len(crit) |-> crit[k].score]),
            maxScore |-> section.maxPoints,
            criteria |-> crit,
            strengths |-> Flatten([k \in 1..Len(crit) |->
               IF k \in scored THEN <<[kind |-> crit[k].strength, of |-> crit[k].name]>>
               ELSE <<>>]),
            improvements |-> Flatten([k \in 1..Len(crit) |->
               IF k \in scored THEN <<>>
               ELSE <<[kind |-> crit[k].improvement, of |-> crit[k].name]>>]),
            applicable |-> TRUE]

analyzeSectionResponse(sectionKey, agentMessage, customerMessage, callContext) ==
  analyzeSectionOf(S4_SCORING_GUIDELINES[sectionKey], sectionKey, agentMessage,
                   customerMessage, callContext)

(***************************************************************************)
(* generateInsights, generateOpportunities, generateNextStepHints and      *)
(* analyzeAgentResponse.  Display texts (messages, icons, suggestions) are *)
(* left out of the records; what selects them is kept.                     *)
(***************************************************************************)
generateInsights(sections, callContext) ==
  LET totalScore == SumSeq([k \in 1..Len(SectionKeys) |-> sections[SectionKeys[k]].score])
      maxScore == SumSeq([k \in 1..Len(SectionKeys) |-> sections[SectionKeys[k]].maxScore])
      \* percentage = (totalScore / maxScore) * 100
      overall ==
        IF 100 * totalScore >= 80 * maxScore
        THEN [type |-> "success", priority |-> "high", section |-> "overall"]
        ELSE IF 100 * totalScore >= 60 * maxScore
        THEN [type |-> "warning", priority |-> "medium", section |-> "overall"]
        ELSE [type |-> "error", priority |-> "high", section |-> "overall"]
      perSection(key) ==
        LET section == sections[key] IN
        IF section.score = 0 /\ section.applicable
        THEN <<[type |-> "error", priority |-> "high", section |-> key]>>
        ELSE IF section.score = section.maxScore
        THEN <<[type |-> "success", priority |-> "low", section |-> key]>>
        ELSE <<>>
  IN  <<overall>> \o Flatten([k \in 1..Len(SectionKeys) |-> perSection(SectionKeys[k])])

generateOpportunities(sections, callContext) ==
  LET ofSection(key) ==
        LET section == sections[key] IN
        IF section.applicable /\ section.score < section.maxScore
        THEN Flatten([c \in 1..Len(section.criteria) |->
               IF section.criteria[c].score < section.criteria[c].maxScore
               THEN <<[section |-> section.name,
                       criterion |-> section.criteria[c].name,
                       impact |-> IF section.criteria[c].score = 0
                                  THEN "high" ELSE "medium"]>>
               ELSE <<>>])
        ELSE <<>>
  IN  Flatten([k \in 1..Len(SectionKeys) |-> ofSection(SectionKeys[k])])

\* the SELL hint given whether or not the section was applicable
generateNextStepHints_SellRegardless(sections, callContext) ==
  LET s1Score == sections.s1.score
      s2Score == sections.s2.score
      s3Score == sections.s3.score
  IN  IF 10 * s1Score < 8 * S4_SCORING_GUIDELINES.s1.maxPoints
      THEN <<[stage |-> "START", priority |-> "high"]>>
      ELSE IF 10 * s2Score < 8 * S4_SCORING_GUIDELINES.s2.maxPoints
      THEN <<[stage |-> "SOLVE", priority |-> "high"]>>
      ELSE IF 10 * s3Score < 8 * S4_SCORING_GUIDELINES.s3.maxPoints
      THEN <<[stage |-> "SELL", priority |-> "medium"]>>
      ELSE <<[stage |-> "SUMMARIZE", priority |-> "medium"]>>

generateNextStepHints(sections, callContext) ==
  LET s1Score == sections.s1.score
      s2Score == sections.s2.score
      s3Score == sections.s3.score
  IN  \* score < maxPoints * 0.8
      IF 10 * s1Score < 8 * S4_SCORING_GUIDELINES.s1.maxPoints
      THEN <<[stage |-> "START", priority |-> "high"]>>
      ELSE IF 10 * s2Score < 8 * S4_SCORING_GUIDELINES.s2.maxPoints
      THEN <<[stage |-> "SOLVE", priority |-> "high"]>>
      ELSE IF sections.s3.applicable
              /\ 10 * s3Score < 8 * S4_SCORING_GUIDELINES.s3.maxPoints
      THEN <<[stage |-> "SELL", priority |-> "medium"]>>
      ELSE <<[stage |-> "SUMMARIZE", priority |-> "medium"]>>

EmptyAnalysis ==
  [totalScore |-> 0, maxTotalScore |-> 100, sections |-> EmptyObject,
   insights |-> <<>>, opportunities |-> <<>>, nextStepHints |-> <<>>,
   autoFailDetected |-> FALSE, autoFailReason |-> ""]

analyzeAgentResponse(agentMessage, customerMessage, callContext) ==
  LET autoFail == checkAutoFailBehaviors(agentMessage)
      sections == [key \in {SectionKeys[k] : k \in 1..Len(SectionKeys)} |->
                     analyzeSectionResponse(key, agentMessage, customerMessage, callContext)]
  IN  IF autoFail.detected
      THEN [EmptyAnalysis EXCEPT !.autoFailDetected = TRUE,
                                 !.autoFailReason = autoFail.reason,
                                 !.totalScore = 0]
      ELSE [EmptyAnalysis EXCEPT
              !.sections = sections,
              !.totalScore = SumSeq([k \in 1..Len(SectionKeys) |->
                                       sections[SectionKeys[k]].score]),
              !.insights = generateInsights(sections, callContext),
              !.opportunities = generateOpportunities(sections, callContext),
              !.nextStepHints = generateNextStepHints(sections, callContext)]

(***************************************************************************)
(* State.  CallFlowManager (the call session), the RealTimeQualityFeedback *)
(* it is wired to (the call-context tracker), the clock read by new Date(),*)
(* and the last call made on each, with what it returned.                  *)
(***************************************************************************)
VARIABLES
  callActive,           \* CallFlowManager.callActive
  currentInteraction,   \* CallFlowManager.currentInteraction
  interactions,         \* CallFlowManager.interactions
  finalReport,          \* CallFlowManager.finalReport
  callStartTime,        \* CallFlowManager.callStartTime
  callEndTime,          \* CallFlowManager.callEndTime
  scenario,             \* CallFlowManager.scenario
  callEndReason,        \* the reason shown by the call-end indicator
  currentCallContext,   \* RealTimeQualityFeedback.currentCallContext
  conversationHistory,  \* RealTimeQualityFeedback.conversationHistory
  qualityHistory,       \* RealTimeQualityFeedback.qualityHistory
  now,                  \* the clock
  lastCall,             \* the last operation called and its return value
  calls,                \* number of startCall so far
  varied,               \* number of interactions so far that were not the filler
  input,                \* arguments of a direct call of the analyzer
  output,               \* its return value
  recognition,          \* SpeechService.recognition, with the engine's state
  isRecognizing,        \* what isRecognizingGetter reads and setRecognitionState writes
  silenceTimer,         \* SpeechService.silenceTimer
  pendingTimers,        \* the timeouts set and neither cleared nor expired
  timersCreated,        \* number of setTimeout calls so far
  results,              \* the texts passed to onResult so far
  lastError             \* the last message passed to onError

sessionVars ==
  <<callActive, currentInteraction, interactions, finalReport, callStartTime,
    callEndTime, scenario, callEndReason>>

trackerVars == <<currentCallContext, conversationHistory, qualityHistory>>

analyzerVars == <<input, output>>

speechVars ==
  <<recognition, isRecognizing, silenceTimer, pendingTimers, timersCreated,
    results, lastError>>

vars ==
  <<callActive, currentInteraction, interactions, finalReport, callStartTime,
    callEndTime, scenario, callEndReason, currentCallContext,
    conversationHistory, qualityHistory, now, lastCall, calls, varied,
    input, output, recognition, isRecognizing, silenceTimer, pendingTimers,
    timersCreated, results, lastError>>

Null == "null"

Undefined == "undefined"

\* finalReport before a call has ended (null in the source): a report is a
\* record, and the record with no field stands for its absence
NoReport == <<>>

\* the limit one interaction too high
maxInteractions_Eleven == 10 + 1

maxInteractions == 10

callEndPhrases ==
  <<"anything else i can help", "anything else i can assist", "have a great day",
    "have a lovely day", "thank you for calling", "thank you for choosing comcast",
    "is there anything else", "anything else today">>

customerEndPhrases ==
  <<"no thank you", "no thanks", "that's all", "nothing else", "no that's it",
    "no i'm good", "that's everything">>

(***************************************************************************)
(* RealTimeQualityFeedback                                                 *)
(***************************************************************************)
InitialCallContext ==
  [stage |-> "s1", turnCount |-> 0, customerType |-> "neutral",
   authenticated |-> FALSE, optedOutOfSales |-> FALSE]

\* the SOLVE stage one turn short
StageOfTurn_ShortSolve(turnCount) ==
  IF turnCount <= 2 THEN "s1"
  ELSE IF turnCount <= 5 THEN "s2"
  ELSE IF turnCount <= 8 THEN "s3"
  ELSE "s4"

StageOfTurn(turnCount) ==
  IF turnCount <= 2 THEN "s1"
  ELSE IF turnCount <= 6 THEN "s2"
  ELSE IF turnCount <= 8 THEN "s3"
  ELSE "s4"

\* authenticated recomputed from the agent text of each turn
updateCallContext_AuthPerTurn(ctx, agentMessage, customerMessage, additionalContext) ==
  LET turnCount == ctx.turnCount + 1
      lowerCustomer == toLowerCase(customerMessage)
      customerType ==
        IF customerMessage # ""
        THEN IF \/ includes(lowerCustomer, "angry")
                \/ includes(lowerCustomer, "terrible")
                \/ includes(lowerCustomer, "hate")
             THEN "irate"
             ELSE IF \/ includes(lowerCustomer, "thank")
                     \/ includes(lowerCustomer, "great")
                     \/ includes(lowerCustomer, "good")
             THEN "satisfied"
             ELSE ctx.customerType
        ELSE ctx.customerType
      authenticated ==
        \/ includes(toLowerCase(agentMessage), "verify")
        \/ includes(toLowerCase(agentMessage), "authenticate")
      updated == [ctx EXCEPT !.turnCount = turnCount,
                             !.stage = StageOfTurn(turnCount),
                             !.customerType = customerType,
                             !.authenticated = authenticated]
  IN  ObjectAssign(updated, additionalContext)

\* the satisfied words looked for before the irate words
updateCallContext_SatisfiedFirst(ctx, agentMessage, customerMessage, additionalContext) ==
  LET turnCount == ctx.turnCount + 1
      lowerCustomer == toLowerCase(customerMessage)
      customerType ==
        IF customerMessage # ""
        THEN IF \/ includes(lowerCustomer, "thank")
                \/ includes(lowerCustomer, "great")
                \/ includes(lowerCustomer, "good")
             THEN "satisfied"
             ELSE IF \/ includes(lowerCustomer, "angry")
                     \/ includes(lowerCustomer, "terrible")
                     \/ includes(lowerCustomer, "hate")
             THEN "irate"
             ELSE ctx.customerType
        ELSE ctx.customerType
      authenticated ==
        IF \/ includes(toLowerCase(agentMessage), "verify")
           \/ includes(toLowerCase(agentMessage), "authenticate")
        THEN TRUE ELSE ctx.authenticated
      updated == [ctx EXCEPT !.turnCount = turnCount,
                             !.stage = StageOfTurn(turnCount),
                             !.customerType = customerType,
                             !.authenticated = authenticated]
  IN  ObjectAssign(updated, additionalContext)

updateCallContext(ctx, agentMessage, customerMessage, additionalContext) ==
  LET turnCount == ctx.turnCount + 1
      lowerCustomer == toLowerCase(customerMessage)
      customerType ==
        IF customerMessage # ""
        THEN IF \/ includes(lowerCustomer, "angry")
                \/ includes(lowerCustomer, "terrible")
                \/ includes(lowerCustomer, "hate")
             THEN "irate"
             ELSE IF \/ includes(lowerCustomer, "thank")
                     \/ includes(lowerCustomer, "great")
                     \/ includes(lowerCustomer, "good")
             THEN "satisfied"
             ELSE ctx.customerType
        ELSE ctx.customerType
      authenticated ==
        IF \/ includes(toLowerCase(agentMessage), "verify")
           \/ includes(toLowerCase(agentMessage), "authenticate")
        THEN TRUE ELSE ctx.authenticated
      updated == [ctx EXCEPT !.turnCount = turnCount,
                             !.stage = StageOfTurn(turnCount),
                             !.customerType = customerType,
                             !.authenticated = authenticated]
  IN  ObjectAssign(updated, additionalContext)

(***************************************************************************)
(* CallFlowManager                                                         *)
(***************************************************************************)
determineCallStage(interaction) ==
  IF interaction <= 2 THEN "s1"
  ELSE IF interaction <= 6 THEN "s2"
  ELSE IF interaction <= 8 THEN "s3"
  ELSE "s4"

\* the same, comparing the customer text itself with the empty string
shouldEndCall_NoTrim(agentMessage, customerResponse) ==
  LET lowerAgent == toLowerCase(agentMessage)
      lowerCustomer == toLowerCase(customerResponse)
      agentUsedClosing == SomeIncluded(callEndPhrases, lowerAgent)
      customerIsDone == SomeIncluded(customerEndPhrases, lowerCustomer)
  IN  \/ (agentUsedClosing /\ (customerIsDone \/ customerResponse = ""))
      \/ customerIsDone

shouldEndCall(agentMessage, customerResponse) ==
  LET lowerAgent == toLowerCase(agentMessage)
      lowerCustomer == toLowerCase(customerResponse)
      agentUsedClosing == SomeIncluded(callEndPhrases, lowerAgent)
      customerIsDone == SomeIncluded(customerEndPhrases, lowerCustomer)
  IN  \/ (agentUsedClosing /\ (customerIsDone \/ trim(customerResponse) = ""))
      \/ customerIsDone

\* generateComprehensiveReport / generateBasicReport: the call summary and the
\* turn records the report carries
generateComprehensiveReport(history, count, startTime, endTime, scen) ==
  [callSummary |-> [duration |-> endTime - startTime,
                    interactions |-> count,
                    scenario |-> scen,
                    startTime |-> startTime,
                    endTime |-> endTime],
   interactions |-> history]

(***************************************************************************)
(* Bounds of the model and the texts fed to the session.                   *)
(***************************************************************************)
MaxCalls == 1

MaxTurns == 11

MaxVaried == 1

JohnGreeting ==
  "Hello, this is John from Comcast. I understand your concern and I'm here to help resolve this for you. Let me verify your account."

ClosingQuestion == "Is there anything else I can help you with?"

RudeRemark == "Shut up and listen to me, you idiot!"

\* the interaction of tests/callFlowManager.test.js "should limit interactions"
Filler == <<"Message", "Response">>

Exchanges ==
  { Filler,
    <<ClosingQuestion, "I have an issue">>,
    <<ClosingQuestion, "No thank you">>,
    <<ClosingQuestion, "">>,
    <<"Thank you for calling Comcast. Have a great day!", "   ">>,
    <<"Let me check that for you.", "That's all, thanks">> }

\* the exchanges fed to the tracker when it is called on its own
TrackerExchanges ==
  { Filler,
    <<"Let me verify your account.", "I am angry about my bill">> }

\* null, empty, blank, punctuation only, and a long run of one letter
OverlongText == "aaaaaaaaaaaaaaaaaaaaaaaaaaaaaaaaaaaaaaaaaaaaaaaaaaaaaaaaaaaaaaaa"

AnomalousTexts == { Null, "", "   ", "!@#$%^&*()", OverlongText }

AnomalousCustomerTexts == { Null, "", "   ", "!@#$%^&*()" }

AnomalousExchanges ==
  { <<a, c>> : a \in AnomalousTexts \ {Null}, c \in AnomalousCustomerTexts \ {Null} }

AdvanceExchanges ==
  { Filler,
    <<"Let me verify your account.", "I am angry about my bill">>,
    <<ClosingQuestion, "No thank you">>,
    <<ClosingQuestion, "">>,
    <<"Message", "I HATE waiting, but thanks">> }

Scenarios == {"Test Customer"}


(***************************************************************************)
(* analyzeAgentResponse reads two fields of the call context, authenticated*)
(* and optedOutOfSales.  The analyses of the exchanges fed to the session  *)
(* are computed once for each value of those two fields and looked up.     *)
(***************************************************************************)
Analyses ==
  [x \in Exchanges \cup TrackerExchanges \cup AdvanceExchanges \cup AnomalousExchanges |->
     [a \in BOOLEAN |->
        [o \in BOOLEAN |->
           analyzeAgentResponse(x[1], x[2],
                                [authenticated |-> a, optedOutOfSales |-> o])]]]

Analysed(agentMessage, customerMessage, callContext) ==
  Analyses[<<agentMessage, customerMessage>>][callContext.authenticated]
          [callContext.optedOutOfSales]

\* What analyzeMessage pushes on the two histories and returns, given the
\* context as updated and the analysis made under it
Recorded(newContext, analysis, agentMessage, customerMessage) ==
  [context |-> newContext,
   analysis |-> analysis,
   conversation |-> [agent |-> agentMessage, customer |-> customerMessage,
                     timestamp |-> now, analysis |-> analysis],
   quality |-> [score |-> analysis.totalScore, maxScore |-> analysis.maxTotalScore,
                timestamp |-> now, sections |-> analysis.sections]]

AnalyzedUnder(newContext, agentMessage, customerMessage) ==
  Recorded(newContext, Analysed(agentMessage, customerMessage, newContext),
           agentMessage, customerMessage)

\* What analyzeMessage leaves in the tracker and returns
analyzeMessage(ctx, agentMessage, customerMessage, additionalContext) ==
  AnalyzedUnder(updateCallContext(ctx, agentMessage, customerMessage, additionalContext),
                agentMessage, customerMessage)

(***************************************************************************)
(* The voice I/O service (SpeechService).  A timeout is known by the       *)
(* number setTimeout returned for it, a positive integer; pendingTimers is *)
(* the browser's table of timeouts that were set and have neither expired  *)
(* nor been cleared.  recognition is null before initRecognition, and then *)
(* carries the state of the browser's recognition engine: "inactive",      *)
(* "starting" (start() called, the start event not yet delivered),         *)
(* "listening", or "stopping" (stop() called or an error raised, the end   *)
(* event not yet delivered).  The browser supports speech, and one         *)
(* language is used throughout.                                            *)
(***************************************************************************)
\* this.silenceTimer = null
NoTimer == 0

Timers(timer, pending, created) ==
  [silenceTimer |-> timer, pendingTimers |-> pending, timersCreated |-> created]

clearSilenceTimer(timers) ==
  IF timers.silenceTimer # NoTimer
  THEN [timers EXCEPT !.pendingTimers = @ \ {timers.silenceTimer},
                      !.silenceTimer = NoTimer]
  ELSE timers

\* startSilenceTimer that sets the new timeout without clearing the one before
startSilenceTimer_KeepsPending(timers) ==
  [silenceTimer |-> timers.timersCreated + 1,
   pendingTimers |-> timers.pendingTimers \cup {timers.timersCreated + 1},
   timersCreated |-> timers.timersCreated + 1]

startSilenceTimer(timers) ==
  startSilenceTimer_KeepsPending(clearSilenceTimer(timers))

resetSilenceTimer(timers) == startSilenceTimer(timers)

\* recognition.start(): an engine that is not inactive raises InvalidStateError
CanStart(engine) == engine \in {Null, "inactive"}

\* recognition.stop(), called only if this.recognition is set
Stopped(engine) ==
  IF engine \in {"starting", "listening"} THEN "stopping" ELSE engine

SpeechConstructed ==
  /\ recognition = Null
  /\ isRecognizing = FALSE
  /\ silenceTimer = NoTimer
  /\ pendingTimers = {}
  /\ timersCreated = 0
  /\ results = <<>>
  /\ lastError = Null

(***************************************************************************)
(* Operations of the call session.  new Date() reads the clock; the clock  *)
(* moves on by one between the start and the end of a call.                *)
(***************************************************************************)
Constructed ==
  /\ callActive = FALSE
  /\ currentInteraction = 0
  /\ interactions = <<>>
  /\ finalReport = NoReport
  /\ callStartTime = Null
  /\ callEndTime = Null
  /\ scenario = Undefined
  /\ callEndReason = Null
  /\ currentCallContext = InitialCallContext
  /\ conversationHistory = <<>>
  /\ qualityHistory = <<>>
  /\ now = 0
  /\ lastCall = [op |-> "constructor", active |-> FALSE, result |-> Undefined]
  /\ calls = 0
  /\ varied = 0
  /\ SpeechConstructed

NoOutput == [op |-> "none"]

Init ==
  /\ Constructed
  /\ input = Null
  /\ output = NoOutput

\* startCall leaving the report of the call before in place
StartCallUpTo_KeepsReport(scen, limit) ==
  /\ calls < limit
  /\ now' = now + 1
  /\ callActive' = TRUE
  /\ callStartTime' = now'
  /\ currentInteraction' = 0
  /\ interactions' = <<>>
  /\ scenario' = scen
  /\ calls' = calls + 1
  /\ lastCall' = [op |-> "startCall", active |-> callActive, result |-> Undefined]
  /\ UNCHANGED <<finalReport, callEndTime, callEndReason, trackerVars, varied, analyzerVars, speechVars>>

\* startCall, for a session object that is started at most limit times
StartCallUpTo(scen, limit) ==
  /\ calls < limit
  /\ now' = now + 1
  /\ callActive' = TRUE
  /\ callStartTime' = now'
  /\ currentInteraction' = 0
  /\ interactions' = <<>>
  /\ finalReport' = NoReport
  /\ scenario' = scen
  /\ calls' = calls + 1
  /\ lastCall' = [op |-> "startCall", active |-> callActive, result |-> Undefined]
  /\ UNCHANGED <<callEndTime, callEndReason, trackerVars, varied, analyzerVars, speechVars>>

StartCall(scen) == StartCallUpTo(scen, MaxCalls)

\* the assignments of endCall(reason) on an active session, with the turn
\* records and counter it finds
EndEffects(reason, history, count) ==
  /\ callActive' = FALSE
  /\ now' = now + 1
  /\ callEndTime' = now'
  /\ finalReport' = generateComprehensiveReport(history, count, callStartTime,
                                                callEndTime', scenario)
  /\ callEndReason' = reason

\* the limit compared with > instead of >=
endingReason_LateLimit(message, customerResponse, number) ==
  IF shouldEndCall(message, customerResponse) THEN "natural_ending"
  ELSE IF number > maxInteractions THEN "interaction_limit"
  ELSE Null

\* the interaction limit checked before the ending phrases
endingReason_LimitFirst(message, customerResponse, number) ==
  IF number >= maxInteractions THEN "interaction_limit"
  ELSE IF shouldEndCall(message, customerResponse) THEN "natural_ending"
  ELSE Null

\* the ending conditions processAgentInteraction checks once the interaction is
\* stored: the reason it ends the call with, or Null
endingReason(message, customerResponse, number) ==
  IF shouldEndCall(message, customerResponse) THEN "natural_ending"
  ELSE IF number >= maxInteractions THEN "interaction_limit"
  ELSE Null

\* processAgentInteraction on an active session, from the point where the
\* tracker has returned its analysis: the interaction is stored and the ending
\* conditions are acted on
StoreInteraction(message, customerResponse, number, fed, reason) ==
  /\ currentInteraction' = number
  /\ currentCallContext' = fed.context
  /\ conversationHistory' = Append(conversationHistory, fed.conversation)
  /\ qualityHistory' = Append(qualityHistory, fed.quality)
  /\ interactions' = Append(interactions,
                            [number |-> number, timestamp |-> now,
                             agent |-> message, customer |-> customerResponse,
                             analysis |-> fed.analysis])
  /\ IF reason # Null
     THEN EndEffects(reason, interactions', number)
     ELSE UNCHANGED <<callActive, now, callEndTime, finalReport, callEndReason>>
  /\ varied' = IF <<message, customerResponse>> = Filler THEN varied ELSE varied + 1
  /\ UNCHANGED <<callStartTime, scenario, calls, analyzerVars, speechVars>>

Interact(message, customerResponse, number) ==
  StoreInteraction(message, customerResponse, number,
                   analyzeMessage(currentCallContext, message, customerResponse,
                                  [interactionNumber |-> number,
                                   callStage |-> determineCallStage(number)]),
                   endingReason(message, customerResponse, number))

ProcessAgentInteraction(message, customerResponse) ==
  /\ <<message, customerResponse>> # Filler => varied < MaxVaried
  /\ currentCallContext.turnCount < MaxTurns
  /\ lastCall' = [op |-> "processAgentInteraction", active |-> callActive,
                  result |-> IF callActive THEN "interaction" ELSE Null]
  /\ IF ~callActive
     THEN UNCHANGED <<sessionVars, trackerVars, now, calls, varied, analyzerVars, speechVars>>
     ELSE Interact(message, customerResponse, currentInteraction + 1)

\* endCall guarded only against a session that never started: an ended call is
\* ended again
EndCall_EndsAgain(reason) ==
  /\ lastCall' = [op |-> "endCall", active |-> callActive,
                  result |-> IF calls > 0 THEN "report" ELSE Undefined]
  /\ IF calls = 0
     THEN UNCHANGED <<sessionVars, trackerVars, now, calls, varied, analyzerVars, speechVars>>
     ELSE /\ EndEffects(reason, interactions, currentInteraction)
          /\ UNCHANGED <<currentInteraction, interactions, callStartTime, scenario,
                         trackerVars, calls, varied, analyzerVars, speechVars>>

EndCall(reason) ==
  /\ lastCall' = [op |-> "endCall", active |-> callActive,
                  result |-> IF callActive THEN "report" ELSE Undefined]
  /\ IF ~callActive
     THEN UNCHANGED <<sessionVars, trackerVars, now, calls, varied, analyzerVars, speechVars>>
     ELSE /\ EndEffects(reason, interactions, currentInteraction)
          /\ UNCHANGED <<currentInteraction, interactions, callStartTime, scenario,
                         trackerVars, calls, varied, analyzerVars, speechVars>>

Next ==
  \/ \E scen \in Scenarios : StartCall(scen)
  \/ \E x \in Exchanges : ProcessAgentInteraction(x[1], x[2])
  \/ EndCall("manual")

Spec == Init /\ [][Next]_vars

(* The same session object used for one call after another. *)
MaxSessions == 2

RestartExchanges == { Filler, <<ClosingQuestion, "No thank you">> }

NextRestart ==
  \/ \E scen \in Scenarios : StartCallUpTo(scen, MaxSessions)
  \/ \E x \in RestartExchanges : ProcessAgentInteraction(x[1], x[2])
  \/ EndCall("manual")

SpecRestart == Init /\ [][NextRestart]_vars

(***************************************************************************)
(* The analyzer called on its own: analyzeAgentResponse and the functions  *)
(* it is made of, each applied once to the arguments drawn at the start.   *)
(***************************************************************************)
AvoidanceRemark == "Hold on, I need to take a personal call."

TransferRemark == "That's not my department, you need to call another department."

FullOpening ==
  "Hello, this is John from Comcast. I understand your concern and I can help. Let me verify your account."

OpeningAndSolving ==
  FullOpening \o " What happened, and when? The solution is to fix the service email."

\* both keyword criteria of BEHAVIORS met, and an indicator of a third criterion
OwnershipAndConcern ==
  "I understand your concern. I will use clear communication and we can fix it."

AgentTexts ==
  { "", "Message", JohnGreeting, RudeRemark, AvoidanceRemark, TransferRemark,
    FullOpening, OpeningAndSolving, OwnershipAndConcern,
    "I understand your concern, but that is not my problem.",
    "Whatever. Hold on, this is personal and not my department.",
    "Hold on, this is personal. Please call another department.",
    "What solution did the email give?",
    "I also recommend an upgrade since it would save you money. Would you like to add it today?" }

CustomerTexts ==
  { "", "My internet is down", "This is terrible! I hate your service!",
    "That was AWFUL" }

CallContexts ==
  { EmptyObject,
    [stage |-> "s3"],
    [authenticated |-> TRUE, optedOutOfSales |-> FALSE],
    [authenticated |-> FALSE, optedOutOfSales |-> FALSE],
    [authenticated |-> TRUE, optedOutOfSales |-> TRUE],
    [customerType |-> "irate", authenticated |-> TRUE, optedOutOfSales |-> FALSE] }

InitAnalyze ==
  /\ Constructed
  /\ input \in [agentMessage : AgentTexts, customerMessage : CustomerTexts,
                callContext : CallContexts]
  /\ output = NoOutput

Returned(result) ==
  /\ output = NoOutput
  /\ output' = result
  /\ UNCHANGED <<sessionVars, trackerVars, now, lastCall, calls, varied, input, speechVars>>

CallAnalyzeAgentResponse ==
  Returned([op |-> "analyzeAgentResponse",
            value |-> analyzeAgentResponse(input.agentMessage, input.customerMessage,
                                           input.callContext)])

CallCheckAutoFailBehaviors ==
  Returned([op |-> "checkAutoFailBehaviors",
            value |-> checkAutoFailBehaviors(input.agentMessage)])

CallAnalyzeSectionResponse(sectionKey) ==
  Returned([op |-> "analyzeSectionResponse", section |-> sectionKey,
            value |-> analyzeSectionResponse(sectionKey, input.agentMessage,
                                             input.customerMessage, input.callContext)])

CallAnalyzeCriterion(sectionKey, c) ==
  Returned([op |-> "analyzeCriterion", section |-> sectionKey, criterion |-> c,
            value |-> analyzeCriterion(S4_SCORING_GUIDELINES[sectionKey].criteria[c],
                                       toLowerCase(input.agentMessage),
                                       input.callContext)])

NextAnalyze ==
  \/ CallAnalyzeAgentResponse
  \/ CallCheckAutoFailBehaviors
  \/ \E k \in 1..Len(SectionKeys) : CallAnalyzeSectionResponse(SectionKeys[k])
  \/ \E k \in 1..Len(SectionKeys) :
       \E c \in 1..Len(S4_SCORING_GUIDELINES[SectionKeys[k]].criteria) :
          CallAnalyzeCriterion(SectionKeys[k], c)

SpecAnalyze == InitAnalyze /\ [][NextAnalyze]_vars

(***************************************************************************)
(* The tracker called on its own: updateCallContext and analyzeMessage     *)
(* with additional context of the caller's choice, and resetForNewCall.    *)
(***************************************************************************)
MaxHistory == 2

AdditionalContexts ==
  { EmptyObject,
    [interactionNumber |-> 1, callStage |-> "s1"],
    [optedOutOfSales |-> TRUE, customField |-> "test"],
    [stage |-> "s4"],
    [turnCount |-> 5] }

UpdateCallContext(agentMessage, customerMessage, additionalContext) ==
  /\ currentCallContext.turnCount < MaxTurns
  /\ currentCallContext' = updateCallContext(currentCallContext, agentMessage,
                                             customerMessage, additionalContext)
  /\ lastCall' = [op |-> "updateCallContext", agentMessage |-> agentMessage,
                  customerMessage |-> customerMessage,
                  additionalContext |-> additionalContext]
  /\ UNCHANGED <<sessionVars, conversationHistory, qualityHistory, now, calls,
                 varied, analyzerVars, speechVars>>

Push(fed, agentMessage, customerMessage, additionalContext) ==
  /\ currentCallContext' = fed.context
  /\ conversationHistory' = Append(conversationHistory, fed.conversation)
  /\ qualityHistory' = Append(qualityHistory, fed.quality)
  /\ lastCall' = [op |-> "analyzeMessage", agentMessage |-> agentMessage,
                  customerMessage |-> customerMessage,
                  additionalContext |-> additionalContext]
  /\ UNCHANGED <<sessionVars, now, calls, varied, analyzerVars, speechVars>>

AnalyzeMessage(agentMessage, customerMessage, additionalContext) ==
  /\ currentCallContext.turnCount < MaxTurns
  /\ Len(conversationHistory) < MaxHistory
  /\ Push(analyzeMessage(currentCallContext, agentMessage, customerMessage,
                         additionalContext),
          agentMessage, customerMessage, additionalContext)

ResetForNewCall ==
  /\ currentCallContext' = InitialCallContext
  /\ conversationHistory' = <<>>
  /\ qualityHistory' = <<>>
  /\ lastCall' = [op |-> "resetForNewCall", additionalContext |-> EmptyObject]
  /\ UNCHANGED <<sessionVars, now, calls, varied, analyzerVars, speechVars>>

NextTracker ==
  \/ \E x \in TrackerExchanges : \E add \in AdditionalContexts :
        UpdateCallContext(x[1], x[2], add)
  \/ \E x \in TrackerExchanges : \E add \in AdditionalContexts :
        AnalyzeMessage(x[1], x[2], add)
  \/ ResetForNewCall

SpecTracker == Init /\ [][NextTracker]_vars

(* The tracker driven with the customer texts and the overrides that bear on
   the sentiment and the authentication flag. *)
AdvanceOverrides ==
  { EmptyObject,
    [authenticated |-> FALSE],
    [customerType |-> "neutral"] }

MaxAdvances == 4

NextAdvance ==
  \/ /\ currentCallContext.turnCount < MaxAdvances
     /\ \E x \in AdvanceExchanges : \E add \in AdvanceOverrides :
          UpdateCallContext(x[1], x[2], add)
  \/ /\ currentCallContext.turnCount < MaxAdvances
     /\ \E x \in AdvanceExchanges : \E add \in AdvanceOverrides :
          AnalyzeMessage(x[1], x[2], add)
  \/ ResetForNewCall

SpecAdvance == Init /\ [][NextAdvance]_vars

(***************************************************************************)
(* getQualityTrend, applied to quality histories of a few entries.  Only   *)
(* the score of an entry is read.                                          *)
(***************************************************************************)
\* Array.prototype.slice(-n): the last n entries, all of them if fewer
SliceLast(history, n) ==
  IF Len(history) <= n THEN history
  ELSE SubSeq(history, Len(history) - n + 1, Len(history))

\* the difference taken over the whole history
getQualityTrend_WholeHistory(history) ==
  IF Len(history) < 2
  THEN [trend |-> "insufficient_data",
        message |-> "Need more interactions for trend analysis"]
  ELSE LET scores == [k \in 1..Len(history) |-> history[k].score]
           firstScore == scores[1]
           lastScore == scores[Len(scores)]
           difference == lastScore - firstScore
       IN  IF difference > 5
           THEN [trend |-> "improving",
                 message |-> "Quality is improving! Keep up the good work."]
           ELSE IF difference < -5
           THEN [trend |-> "declining",
                 message |-> "Quality is declining. Focus on S4 fundamentals."]
           ELSE [trend |-> "stable",
                 message |-> "Quality is stable. Look for opportunities to excel."]

getQualityTrend(history) ==
  IF Len(history) < 2
  THEN [trend |-> "insufficient_data",
        message |-> "Need more interactions for trend analysis"]
  ELSE LET recent == SliceLast(history, 3)
           scores == [k \in 1..Len(recent) |-> recent[k].score]
           firstScore == scores[1]
           lastScore == scores[Len(scores)]
           difference == lastScore - firstScore
       IN  IF difference > 5
           THEN [trend |-> "improving",
                 message |-> "Quality is improving! Keep up the good work."]
           ELSE IF difference < -5
           THEN [trend |-> "declining",
                 message |-> "Quality is declining. Focus on S4 fundamentals."]
           ELSE [trend |-> "stable",
                 message |-> "Quality is stable. Look for opportunities to excel."]

MaxTrendLen == 4

TrendScores == {50, 55, 56, 60, 62, 70}

TrendHistories ==
  UNION { [1..n -> [score : TrendScores]] : n \in 0..MaxTrendLen }

InitTrend ==
  /\ callActive = FALSE
  /\ currentInteraction = 0
  /\ interactions = <<>>
  /\ finalReport = NoReport
  /\ callStartTime = Null
  /\ callEndTime = Null
  /\ scenario = Undefined
  /\ callEndReason = Null
  /\ currentCallContext = InitialCallContext
  /\ conversationHistory = <<>>
  /\ qualityHistory \in TrendHistories
  /\ now = 0
  /\ lastCall = [op |-> "constructor", active |-> FALSE, result |-> Undefined]
  /\ calls = 0
  /\ varied = 0
  /\ input = Null
  /\ output = NoOutput
  /\ SpeechConstructed

GetQualityTrend ==
  /\ output = NoOutput
  /\ output' = [op |-> "getQualityTrend", value |-> getQualityTrend(qualityHistory)]
  /\ UNCHANGED <<sessionVars, trackerVars, now, lastCall, calls, varied, input, speechVars>>

NextTrend == GetQualityTrend

SpecTrend == InitTrend /\ [][NextTrend]_vars

(***************************************************************************)
(* The catalog is an exported object that is neither frozen nor checked:   *)
(* analyzeSectionResponse scores against whatever it holds when called.    *)
(* The catalog as found by a call is part of the call's input here.        *)
(***************************************************************************)
Rubrics ==
  { S4_SCORING_GUIDELINES,
    [S4_SCORING_GUIDELINES EXCEPT !.s3.criteria[3].maxScore = 5],
    [S4_SCORING_GUIDELINES EXCEPT !.s1.maxPoints = 25] }

RubricAgentTexts ==
  { "", JohnGreeting, "I suggest an upgrade, would you like that today?",
    "Let me verify and fix this, I will follow up." }

InitRubric ==
  /\ Constructed
  /\ input \in [rubric : Rubrics, agentMessage : RubricAgentTexts,
                customerMessage : CustomerTexts, callContext : CallContexts]
  /\ output = NoOutput

ScoreSection(sectionKey) ==
  Returned([op |-> "analyzeSectionResponse", section |-> sectionKey,
            value |-> analyzeSectionOf(input.rubric[sectionKey], sectionKey,
                                       input.agentMessage, input.customerMessage,
                                       input.callContext)])

NextRubric == \E k \in 1..Len(SectionKeys) : ScoreSection(SectionKeys[k])

SpecRubric == InitRubric /\ [][NextRubric]_vars

(***************************************************************************)
(* Anomalous texts.  null has no toLowerCase: reading it raises a          *)
(* TypeError, which leaves the handler at that statement with the          *)
(* assignments made so far.  None of the texts tried is an auto-fail text. *)
(***************************************************************************)
Throws == [threw |-> TRUE, value |-> Undefined]

Returns(value) == [threw |-> FALSE, value |-> value]

\* analyzeAgentResponse as its caller sees it: checkAutoFailBehaviors reads
\* message.toLowerCase() first, isSellSectionApplicable reads
\* customerMessage.toLowerCase() when the third section is analysed
analyzeAgentResponseOutcome(agentMessage, customerMessage, callContext) ==
  IF agentMessage = Null THEN Throws
  ELSE IF checkAutoFailBehaviors(agentMessage).detected
  THEN Returns(analyzeAgentResponse(agentMessage, customerMessage, callContext))
  ELSE IF customerMessage = Null THEN Throws
  ELSE Returns(analyzeAgentResponse(agentMessage, customerMessage, callContext))

\* updateCallContext up to agentMessage.toLowerCase() on a null agent text: the
\* turn is counted, the stage set and the customer text scanned
updateCallContextUntilThrow(ctx, customerMessage) ==
  LET turnCount == ctx.turnCount + 1
      lowerCustomer == toLowerCase(customerMessage)
      customerType ==
        IF customerMessage # "" /\ customerMessage # Null
        THEN IF \/ includes(lowerCustomer, "angry")
                \/ includes(lowerCustomer, "terrible")
                \/ includes(lowerCustomer, "hate")
             THEN "irate"
             ELSE IF \/ includes(lowerCustomer, "thank")
                     \/ includes(lowerCustomer, "great")
                     \/ includes(lowerCustomer, "good")
             THEN "satisfied"
             ELSE ctx.customerType
        ELSE ctx.customerType
  IN  [ctx EXCEPT !.turnCount = turnCount,
                  !.stage = StageOfTurn(turnCount),
                  !.customerType = customerType]

InitAnomalies ==
  /\ Constructed
  /\ input \in [agentMessage : AnomalousTexts, customerMessage : AnomalousCustomerTexts]
  /\ output = NoOutput

CallAnalyzeTurn ==
  Returned([op |-> "analyzeAgentResponse",
            outcome |-> analyzeAgentResponseOutcome(input.agentMessage,
                                                    input.customerMessage, EmptyObject)])

\* processAgentInteraction left by a TypeError: the counter is incremented, the
\* context is as the tracker left it, no interaction is stored
InteractionThrown(newContext) ==
  /\ currentInteraction' = currentInteraction + 1
  /\ currentCallContext' = newContext
  /\ lastCall' = [op |-> "processAgentInteraction", active |-> callActive,
                  result |-> "TypeError"]
  /\ UNCHANGED <<callActive, interactions, finalReport, callStartTime, callEndTime,
                 scenario, callEndReason, conversationHistory, qualityHistory, now,
                 calls, varied, analyzerVars, speechVars>>

ProcessAnomalousInteraction(message, customerResponse) ==
  /\ currentCallContext.turnCount < MaxTurns
  /\ IF ~callActive
     THEN /\ lastCall' = [op |-> "processAgentInteraction", active |-> callActive,
                          result |-> Null]
          /\ UNCHANGED <<sessionVars, trackerVars, now, calls, varied, analyzerVars, speechVars>>
     ELSE IF message = Null
     THEN InteractionThrown(updateCallContextUntilThrow(currentCallContext,
                                                        customerResponse))
     ELSE IF customerResponse = Null
     THEN InteractionThrown(
            updateCallContext(currentCallContext, message, "",
                              [interactionNumber |-> currentInteraction + 1,
                               callStage |-> determineCallStage(currentInteraction + 1)]))
     ELSE /\ lastCall' = [op |-> "processAgentInteraction", active |-> callActive,
                          result |-> "interaction"]
          /\ Interact(message, customerResponse, currentInteraction + 1)

NextAnomalies ==
  \/ \E scen \in Scenarios : StartCall(scen)
  \/ CallAnalyzeTurn
  \/ ProcessAnomalousInteraction(input.agentMessage, input.customerMessage)

SpecAnomalies == InitAnomalies /\ [][NextAnomalies]_vars

(***************************************************************************)
(* The session report: analyzeSectionPerformance, the coaching plan and    *)
(* the promoter probability, computed from the analyses of a call's turns. *)
(* The analyses come from the quality feedback object the session was      *)
(* constructed with.  Quotients are kept exact, as numerator and           *)
(* denominator; Math.round rounds a half upwards.  For calls of up to      *)
(* three turns the doubles of the source round as the exact quotients do;  *)
(* from four turns on (x / 100) * 100 can fall just below a half.  Display *)
(* texts and the lists of strengths and improvements are left out; the     *)
(* trends follow further down.                                             *)
(***************************************************************************)
\* Math.round(num / den), den > 0
RoundedRatio(num, den) == (2 * num + den) \div (2 * den)

UpperCaseKey == [s1 |-> "S1", s2 |-> "S2", s3 |-> "S3", s4 |-> "S4",
                 behaviors |-> "BEHAVIORS"]

\* analysis.sections[sectionKey]?.score || 0
ScoreOrZero(analysis, sectionKey) ==
  IF Has(analysis.sections, sectionKey) THEN analysis.sections[sectionKey].score ELSE 0

\* analysis.sections[sectionKey]?.maxScore || fallback
MaxScoreOr(analysis, sectionKey, fallback) ==
  IF Has(analysis.sections, sectionKey) /\ analysis.sections[sectionKey].maxScore # 0
  THEN analysis.sections[sectionKey].maxScore ELSE fallback

SectionPerformanceOf(analyses, sectionKey) ==
  LET totalScore == SumSeq([i \in 1..Len(analyses) |-> ScoreOrZero(analyses[i], sectionKey)])
      totalMaxScore ==
        SumSeq([i \in 1..Len(analyses) |-> MaxScoreOr(analyses[i], sectionKey, 0)])
  IN  [name |-> IF Has(analyses[1].sections, sectionKey)
                THEN analyses[1].sections[sectionKey].name
                ELSE UpperCaseKey[sectionKey],
       averageScore |-> RoundedRatio(totalScore, Len(analyses)),
       percentage |-> IF totalMaxScore > 0
                      THEN RoundedRatio(100 * totalScore, totalMaxScore) ELSE 0]

analyzeSectionPerformance(analyses) ==
  [sectionKey \in {SectionKeys[k] : k \in 1..Len(SectionKeys)} |->
     SectionPerformanceOf(analyses, sectionKey)]

\* Array.prototype.sort is stable: the entries in the order of their keys,
\* where equal percentages keep the order of the sections
SortedBy(indices, keyOf) ==
  [i \in 1..Cardinality(indices) |->
     CHOOSE d \in indices : Cardinality({e \in indices : keyOf[e] < keyOf[d]}) = i - 1]

FirstThree(q) == IF Len(q) <= 3 THEN q ELSE SubSeq(q, 1, 3)

Min(a, b) == IF a < b THEN a ELSE b

Max(a, b) == IF a > b THEN a ELSE b

\* the three highest of the sections below 80 picked
generatePersonalizedCoachingPlan_HighestThree(sectionPerformance) ==
  LET perf == [k \in 1..Len(SectionKeys) |-> sectionPerformance[SectionKeys[k]]]
      weak == {k \in 1..Len(SectionKeys) : perf[k].percentage < 80}
      strong == {k \in 1..Len(SectionKeys) : perf[k].percentage >= 80}
      weakestSections ==
        FirstThree(SortedBy(weak, [k \in weak |-> (100 - perf[k].percentage) * 8 + k]))
      strongestSections ==
        SortedBy(strong, [k \in strong |-> (100 - perf[k].percentage) * 8 + k])
  IN  [priority |-> IF Len(weakestSections) > 2 THEN "high"
                    ELSE IF Len(weakestSections) > 0 THEN "medium" ELSE "low",
       focusAreas |-> [i \in 1..Len(weakestSections) |->
          [section |-> perf[weakestSections[i]].name,
           currentPerformance |-> perf[weakestSections[i]].percentage,
           targetImprovement |-> Min(100, perf[weakestSections[i]].percentage + 20)]],
       strengths |-> [i \in 1..Len(strongestSections) |->
          [section |-> perf[strongestSections[i]].name,
           performance |-> perf[strongestSections[i]].percentage]]]

generatePersonalizedCoachingPlan(sectionPerformance) ==
  LET perf == [k \in 1..Len(SectionKeys) |-> sectionPerformance[SectionKeys[k]]]
      weak == {k \in 1..Len(SectionKeys) : perf[k].percentage < 80}
      strong == {k \in 1..Len(SectionKeys) : perf[k].percentage >= 80}
      weakestSections ==
        FirstThree(SortedBy(weak, [k \in weak |-> perf[k].percentage * 8 + k]))
      strongestSections ==
        SortedBy(strong, [k \in strong |-> (100 - perf[k].percentage) * 8 + k])
  IN  [priority |-> IF Len(weakestSections) > 2 THEN "high"
                    ELSE IF Len(weakestSections) > 0 THEN "medium" ELSE "low",
       focusAreas |-> [i \in 1..Len(weakestSections) |->
          [section |-> perf[weakestSections[i]].name,
           currentPerformance |-> perf[weakestSections[i]].percentage,
           targetImprovement |-> Min(100, perf[weakestSections[i]].percentage + 20)]],
       strengths |-> [i \in 1..Len(strongestSections) |->
          [section |-> perf[strongestSections[i]].name,
           performance |-> perf[strongestSections[i]].percentage]]]

\* getSectionPerformance: 100 * num / den, kept as the pair
getSectionPerformance(analyses, sectionKey) ==
  [num |-> 100 * SumSeq([i \in 1..Len(analyses) |-> ScoreOrZero(analyses[i], sectionKey)]),
   den |-> SumSeq([i \in 1..Len(analyses) |-> MaxScoreOr(analyses[i], sectionKey, 1)])]

\* calculatePromoterProbability for percentage = percentageNum / percentageDen
calculatePromoterProbability(percentageNum, percentageDen, analyses) ==
  LET base == Max(0, 2 * (percentageNum - 60 * percentageDen))
      s1Performance == getSectionPerformance(analyses, "s1")
      s4Performance == getSectionPerformance(analyses, "s4")
      behaviorsPerformance == getSectionPerformance(analyses, "behaviors")
      boost == IF /\ s1Performance.num > 80 * s1Performance.den
                  /\ s4Performance.num > 80 * s4Performance.den
               THEN 15 ELSE 0
      penalty == IF behaviorsPerformance.num < 60 * behaviorsPerformance.den
                 THEN 20 ELSE 0
      probability == base + (boost - penalty) * percentageDen
  IN  Min(100, Max(0, RoundedRatio(probability, percentageDen)))

\* calculateBusinessMetrics: the percentage is the average total score
PromoterProbabilityOf(analyses) ==
  calculatePromoterProbability(
    SumSeq([i \in 1..Len(analyses) |-> analyses[i].totalScore]), Len(analyses), analyses)

\* the percentage of analyzeSectionPerformance before Math.round, as the pair
SectionPercentage(analyses, sectionKey) ==
  LET totalScore == SumSeq([i \in 1..Len(analyses) |-> ScoreOrZero(analyses[i], sectionKey)])
      totalMaxScore ==
        SumSeq([i \in 1..Len(analyses) |-> MaxScoreOr(analyses[i], sectionKey, 0)])
  IN  IF totalMaxScore > 0 THEN [num |-> 100 * totalScore, den |-> totalMaxScore]
      ELSE [num |-> 0, den |-> 1]

\* Math.min(100, Math.max(0, performance)) of a quotient with den > 0
WithinHundred(performance) ==
  IF performance.num > 100 * performance.den THEN [num |-> 100, den |-> 1]
  ELSE IF performance.num < 0 THEN [num |-> 0, den |-> 1]
  ELSE performance

calculateResolutionRate(analyses) ==
  WithinHundred(getSectionPerformance(analyses, "s2"))

assessSalesOpportunity(analyses) ==
  LET s3Performance == getSectionPerformance(analyses, "s3")
  IN  s3Performance.num > 70 * s3Performance.den

assessFirstCallResolution(analyses) ==
  LET s2Performance == getSectionPerformance(analyses, "s2")
  IN  s2Performance.num > 80 * s2Performance.den

MaxReportTurns == 3

SectionScored(sectionKey, score, applicable) ==
  [name |-> S4_SCORING_GUIDELINES[sectionKey].name, score |-> score,
   maxScore |-> S4_SCORING_GUIDELINES[sectionKey].maxPoints, applicable |-> applicable]

TurnScored(s1, s2, s3, sellApplicable, s4, behaviors) ==
  [totalScore |-> s1 + s2 + s3 + s4 + behaviors, maxTotalScore |-> 100,
   autoFailDetected |-> FALSE,
   sections |-> [s1 |-> SectionScored("s1", s1, TRUE),
                 s2 |-> SectionScored("s2", s2, TRUE),
                 s3 |-> SectionScored("s3", s3, sellApplicable),
                 s4 |-> SectionScored("s4", s4, TRUE),
                 behaviors |-> SectionScored("behaviors", behaviors, TRUE)]]

TurnAutoFailed ==
  [totalScore |-> 0, maxTotalScore |-> 100, autoFailDetected |-> TRUE,
   sections |-> EmptyObject]

ReportAnalyses ==
  { TurnScored(20, 25, 18, TRUE, 13, 15),
    TurnScored(20, 20, 10, TRUE, 13, 8),
    TurnScored(20, 25, 0, FALSE, 13, 15),
    TurnScored(5, 10, 4, TRUE, 12, 9),
    TurnScored(18, 21, 16, TRUE, 13, 11),
    TurnScored(20, 5, 0, TRUE, 13, 12),
    TurnAutoFailed }

InitReport ==
  /\ Constructed
  /\ input \in UNION { [1..n -> ReportAnalyses] : n \in 1..MaxReportTurns }
  /\ output = NoOutput

CallAnalyzeSectionPerformance ==
  Returned([op |-> "analyzeSectionPerformance", value |-> analyzeSectionPerformance(input)])

CallGenerateCoachingPlan ==
  Returned([op |-> "generatePersonalizedCoachingPlan",
            performance |-> analyzeSectionPerformance(input),
            value |-> generatePersonalizedCoachingPlan(analyzeSectionPerformance(input))])

CallCalculateBusinessMetrics ==
  Returned([op |-> "calculateBusinessMetrics",
            promoterProbability |-> PromoterProbabilityOf(input),
            resolutionRate |-> calculateResolutionRate(input),
            salesOpportunity |-> assessSalesOpportunity(input),
            firstCallResolution |-> assessFirstCallResolution(input)])

NextReport ==
  \/ CallAnalyzeSectionPerformance
  \/ CallGenerateCoachingPlan
  \/ CallCalculateBusinessMetrics

SpecReport == InitReport /\ [][NextReport]_vars

(***************************************************************************)
(* calculateSectionTrend.  The sums of the scores are integers and exact;  *)
(* the two averages are doubles.  For one or two scores the quotient is    *)
(* exact.  For three, x / 3 is rounded to 53 bits: with 2^e <= x / 3 <     *)
(* 2^(e + 1) the mantissa is x * 2^(52 - e) / 3 rounded to an integer, and *)
(* the remainder of x * 2^(52 - e) by 3, which is (x mod 3) * (2^e mod 3)  *)
(* mod 3, says which way: remainder 1 rounds down by a third of the unit   *)
(* in the last place, remainder 2 rounds up by a third.  The quotients of  *)
(* two integer sums differ by exactly 2 or by a third at least more or     *)
(* less, so the roundings decide the comparison only when the sums are     *)
(* exactly 6 apart.                                                        *)
(***************************************************************************)
\* e + 2 for the exponent e of x / 3, x >= 1
ThirdExponent(x) ==
  CHOOSE k \in 0..12 : 3 * 2^k <= 4 * x /\ 4 * x < 3 * 2^(k + 1)

\* the rounding of x / 3 to a double, in thirds of its unit in the last place:
\* -1 rounded down, 1 rounded up, 0 exact
ThirdRounding(x) ==
  IF x % 3 = 0 THEN 0
  ELSE IF ((x % 3) * (IF ThirdExponent(x) % 2 = 0 THEN 1 ELSE 2)) % 3 = 1 THEN -1
  ELSE 1

\* recentSum / 3 > earlySum / 3 + 2 in doubles.  Six apart, the exact sum of
\* the rounded earlySum / 3 and 2 lies off the double below recentSum / 3 by
\* offset, in units of a third of the unit in the last place of earlySum / 3;
\* it is rounded to that double or the next, a tie to the even mantissa, which
\* is the one below exactly when recentSum / 3 is rounded up.
ThirdsAboveByTwo(recentSum, earlySum) ==
  IF recentSum - earlySum # 6 THEN recentSum - earlySum > 6
  ELSE IF recentSum % 3 = 0 THEN FALSE
  ELSE LET k == ThirdExponent(recentSum) - ThirdExponent(earlySum)
           recentUp == ThirdRounding(recentSum) = 1
           offset == (IF recentUp THEN 2 ELSE 1) * 2^k + ThirdRounding(earlySum)
           sumUp == IF 2 * offset < 3 * 2^k THEN FALSE
                    ELSE IF 2 * offset > 3 * 2^k THEN TRUE
                    ELSE ~recentUp
       IN  recentUp /\ ~sumUp

\* recentSum / 3 < earlySum / 3 - 2 in doubles.  Six apart, the rounded
\* earlySum / 3 less 2 is a double, so the two roundings are compared.
ThirdsBelowByTwo(recentSum, earlySum) ==
  IF earlySum - recentSum # 6 THEN earlySum - recentSum > 6
  ELSE IF recentSum % 3 = 0 THEN FALSE
  ELSE ThirdRounding(recentSum) <
         ThirdRounding(earlySum) * 2^(ThirdExponent(earlySum) - ThirdExponent(recentSum))

\* recentAvg > earlyAvg + 2, both averages over count scores
AverageAboveByTwo(recentSum, earlySum, count) ==
  IF count = 3 THEN ThirdsAboveByTwo(recentSum, earlySum)
  ELSE recentSum - earlySum > 2 * count

\* recentAvg < earlyAvg - 2
AverageBelowByTwo(recentSum, earlySum, count) ==
  IF count = 3 THEN ThirdsBelowByTwo(recentSum, earlySum)
  ELSE earlySum - recentSum > 2 * count

\* scores.slice(-3)
LastThree(q) == IF Len(q) <= 3 THEN q ELSE SubSeq(q, Len(q) - 2, Len(q))

calculateSectionTrend(scores) ==
  IF Len(scores) < 2 THEN "stable"
  ELSE LET recent == LastThree(scores)
           early == FirstThree(scores)
       IN  IF AverageAboveByTwo(SumSeq(recent), SumSeq(early), Len(recent))
           THEN "improving"
           ELSE IF AverageBelowByTwo(SumSeq(recent), SumSeq(early), Len(recent))
           THEN "declining"
           ELSE "stable"

\* sectionScores of analyzeSectionPerformance
SectionScoresOf(analyses, sectionKey) ==
  [i \in 1..Len(analyses) |-> ScoreOrZero(analyses[i], sectionKey)]

\* the trend field of each entry of analyzeSectionPerformance
SectionTrendsOf(analyses) ==
  [sectionKey \in {SectionKeys[k] : k \in 1..Len(SectionKeys)} |->
     calculateSectionTrend(SectionScoresOf(analyses, sectionKey))]

MaxTrendTurns == 4

InitSectionTrend ==
  /\ Constructed
  /\ input \in UNION { [1..n -> ReportAnalyses] : n \in 1..MaxTrendTurns }
  /\ output = NoOutput

CallSectionTrends ==
  Returned([op |-> "sectionTrends", value |-> SectionTrendsOf(input)])

NextSectionTrend == CallSectionTrends

SpecSectionTrend == InitSectionTrend /\ [][NextSectionTrend]_vars

(***************************************************************************)
(* Operations and event handlers of the voice I/O service.  The browser    *)
(* delivers the engine's events and the expiry of a timeout one at a time, *)
(* in any order the engine's state allows.                                 *)
(***************************************************************************)
MaxTimers == 3

MaxResults == 1

FinalTranscripts == { "", "I need help" }

CurrentTimers == Timers(silenceTimer, pendingTimers, timersCreated)

SetTimers(timers) ==
  /\ silenceTimer' = timers.silenceTimer
  /\ pendingTimers' = timers.pendingTimers
  /\ timersCreated' = timers.timersCreated

Called(op) ==
  /\ lastCall' = [op |-> op, active |-> isRecognizing, result |-> Undefined]
  /\ UNCHANGED <<sessionVars, trackerVars, now, calls, varied, analyzerVars>>

StartRecognitionEffects ==
  /\ recognition' = IF CanStart(recognition) THEN "starting" ELSE recognition
  /\ lastError' = IF CanStart(recognition) THEN lastError
                  ELSE "Failed to start recognition"
  /\ UNCHANGED <<isRecognizing, silenceTimer, pendingTimers, timersCreated, results>>

StopRecognitionEffects ==
  /\ recognition' = Stopped(recognition)
  /\ SetTimers(clearSilenceTimer(CurrentTimers))
  /\ UNCHANGED <<isRecognizing, results, lastError>>

StartRecognition == Called("startRecognition") /\ StartRecognitionEffects

StopRecognition == Called("stopRecognition") /\ StopRecognitionEffects

ToggleRecognition ==
  /\ Called("toggleRecognition")
  /\ IF isRecognizing THEN StopRecognitionEffects ELSE StartRecognitionEffects

\* recognition.onstart
OnStart ==
  /\ recognition = "starting"
  /\ timersCreated < MaxTimers
  /\ Called("onstart")
  /\ recognition' = "listening"
  /\ isRecognizing' = TRUE
  /\ SetTimers(startSilenceTimer(CurrentTimers))
  /\ UNCHANGED <<results, lastError>>

\* recognition.onresult, finalTranscript being the final results put together
OnResult(finalTranscript) ==
  /\ recognition \in {"listening", "stopping"}
  /\ timersCreated < MaxTimers
  /\ finalTranscript # "" => Len(results) < MaxResults
  /\ Called("onresult")
  /\ SetTimers(resetSilenceTimer(CurrentTimers))
  /\ results' = IF finalTranscript # "" THEN Append(results, finalTranscript)
                ELSE results
  /\ UNCHANGED <<recognition, isRecognizing, lastError>>

\* recognition.onerror; the engine delivers the end event after it
OnError ==
  /\ recognition \in {"starting", "listening", "stopping"}
  /\ Called("onerror")
  /\ lastError' = "Speech recognition error"
  /\ isRecognizing' = FALSE
  /\ recognition' = "stopping"
  /\ UNCHANGED <<silenceTimer, pendingTimers, timersCreated, results>>

\* recognition.onend
OnEnd ==
  /\ recognition \in {"listening", "stopping"}
  /\ Called("onend")
  /\ recognition' = "inactive"
  /\ isRecognizing' = FALSE
  /\ SetTimers(clearSilenceTimer(CurrentTimers))
  /\ UNCHANGED <<results, lastError>>

StartSilenceTimer ==
  /\ timersCreated < MaxTimers
  /\ Called("startSilenceTimer")
  /\ SetTimers(startSilenceTimer(CurrentTimers))
  /\ UNCHANGED <<recognition, isRecognizing, results, lastError>>

ResetSilenceTimer ==
  /\ timersCreated < MaxTimers
  /\ Called("resetSilenceTimer")
  /\ SetTimers(resetSilenceTimer(CurrentTimers))
  /\ UNCHANGED <<recognition, isRecognizing, results, lastError>>

ClearSilenceTimer ==
  /\ Called("clearSilenceTimer")
  /\ SetTimers(clearSilenceTimer(CurrentTimers))
  /\ UNCHANGED <<recognition, isRecognizing, results, lastError>>

\* the callback given to setTimeout, run when the timeout expires; this.silenceTimer
\* still holds the number of the expired timeout when it runs
SilenceTimerExpires(timer) ==
  /\ timer \in pendingTimers
  /\ Called("silenceTimeout")
  /\ IF isRecognizing
     THEN /\ recognition' = Stopped(recognition)
          /\ SetTimers(clearSilenceTimer(Timers(silenceTimer, pendingTimers \ {timer},
                                                timersCreated)))
          /\ results' = Append(results, "")
     ELSE /\ pendingTimers' = pendingTimers \ {timer}
          /\ UNCHANGED <<recognition, silenceTimer, timersCreated, results>>
  /\ UNCHANGED <<isRecognizing, lastError>>

NextSpeech ==
  \/ StartRecognition
  \/ StopRecognition
  \/ ToggleRecognition
  \/ OnStart
  \/ \E finalTranscript \in FinalTranscripts : OnResult(finalTranscript)
  \/ OnError
  \/ OnEnd
  \/ StartSilenceTimer
  \/ ResetSilenceTimer
  \/ ClearSilenceTimer
  \/ \E timer \in 1..MaxTimers : SilenceTimerExpires(timer)

SpecSpeech == Init /\ [][NextSpeech]_vars

(***************************************************************************)
(* Properties of the call session                                          *)
(***************************************************************************)
AgentUsedClosing(agentText) ==
  \E k \in 1..Len(callEndPhrases) : includes(toLowerCase(agentText), callEndPhrases[k])

CustomerIsDone(customerText) ==
  \E k \in 1..Len(customerEndPhrases) :
     includes(toLowerCase(customerText), customerEndPhrases[k])

\* natural ending, the customer text counting as empty only when it is ""
NaturalEndingEmpty ==
  [x \in Exchanges |->
     \/ (AgentUsedClosing(x[1]) /\ (CustomerIsDone(x[2]) \/ x[2] = ""))
     \/ CustomerIsDone(x[2])]

\* natural ending, the customer text counting as empty when it is blank
NaturalEndingBlank ==
  [x \in Exchanges |->
     \/ (AgentUsedClosing(x[1]) /\ (CustomerIsDone(x[2]) \/ trim(x[2]) = ""))
     \/ CustomerIsDone(x[2])]

Processed ==
  /\ lastCall.op = "processAgentInteraction"
  /\ lastCall.active
  /\ Len(interactions) > 0

LastExchange ==
  <<interactions[Len(interactions)].agent, interactions[Len(interactions)].customer>>

NoNaturalEndingSoFar ==
  \A k \in 1..Len(interactions) :
     ~NaturalEndingBlank[<<interactions[k].agent, interactions[k].customer>>]

\* C1: a freshly started session fed interactions none of which is a natural
\* ending stays active through the 9th and is ended by the 10th, with reason
\* "interaction_limit", exactly 10 turn records and a report.
C1_InteractionLimit ==
  (Processed /\ NoNaturalEndingSoFar) =>
     IF currentInteraction < 10
     THEN callActive
     ELSE /\ currentInteraction = 10
          /\ ~callActive
          /\ callEndReason = "interaction_limit"
          /\ Len(interactions) = 10
          /\ finalReport # NoReport

C1_Witness ==
  /\ Processed
  /\ NoNaturalEndingSoFar
  /\ currentInteraction = 10
  /\ Len(interactions) = 10
  /\ ~callActive
  /\ callEndReason = "interaction_limit"

C3_Original ==
  (Processed /\ currentInteraction < 10) =>
     IF NaturalEndingEmpty[LastExchange]
     THEN ~callActive /\ callEndReason = "natural_ending"
     ELSE callActive

\* C3 amended: the same, the customer text counting as empty when it is empty
\* once trimmed of white space.
C3_NaturalEnding ==
  (Processed /\ currentInteraction < 10) =>
     IF NaturalEndingBlank[LastExchange]
     THEN ~callActive /\ callEndReason = "natural_ending"
     ELSE callActive

C3_Witness ==
  /\ Processed
  /\ currentInteraction < 10
  /\ LastExchange[2] # ""
  /\ trim(LastExchange[2]) = ""
  /\ ~callActive
  /\ callEndReason = "natural_ending"

\* C4 as stated: a 10th interaction that is also a natural ending ends the
\* session with reason "interaction_limit".
C4_Original ==
  (Processed /\ currentInteraction = 10 /\ NaturalEndingEmpty[LastExchange]) =>
     (~callActive /\ callEndReason = "interaction_limit")

\* C4 amended: the ending phrases are checked before the limit, and a 10th
\* interaction that is also a natural ending ends the session with reason
\* "natural_ending".
C4_NaturalBeforeLimit ==
  (Processed /\ currentInteraction = 10 /\ NaturalEndingBlank[LastExchange]) =>
     (~callActive /\ callEndReason = "natural_ending")

C4_Witness ==
  /\ Processed
  /\ currentInteraction = 10
  /\ NaturalEndingBlank[LastExchange]
  /\ callEndReason = "natural_ending"

OnInactive ==
  lastCall.op \in {"processAgentInteraction", "endCall"} /\ ~lastCall.active

\* C5 as stated: processInteraction or endCall on a session that is not active
\* is signalled to the caller as an "invalid session state" failure.
C5_Original == OnInactive => lastCall.result = "invalid_session_state"

\* C5 amended: processInteraction on a session that is not active returns null
\* and endCall returns nothing; neither raises a failure, and neither changes
\* the session, its report or the tracker.
C5_SilentlyIgnored ==
  [][(~callActive /\ lastCall'.op \in {"processAgentInteraction", "endCall"}) =>
       /\ UNCHANGED <<sessionVars, trackerVars>>
       /\ lastCall'.result =
            IF lastCall'.op = "processAgentInteraction" THEN Null ELSE Undefined]_vars

C5_Witness ==
  /\ lastCall.op = "endCall"
  /\ ~lastCall.active
  /\ lastCall.result = Undefined
  /\ finalReport # NoReport
  /\ callEndReason = "manual"

(***************************************************************************)
(* Properties of the analyzer                                              *)
(***************************************************************************)
MatchesAutoFailPattern(agentText) ==
  IsRude(agentText) \/ IsCallAvoidance(agentText) \/ IsInappropriateTransfer(agentText)

\* C6: for every agent utterance that matches an auto-fail pattern, whatever
\* the rubric keywords in it, the customer text and the context, the analysis
\* has totalScore 0, autoFailDetected true, a non-empty autoFailReason, and
\* empty sections and insights.
C6_AutoFailZeroes ==
  (output.op = "analyzeAgentResponse" /\ MatchesAutoFailPattern(input.agentMessage)) =>
     /\ output.value.totalScore = 0
     /\ output.value.autoFailDetected = TRUE
     /\ output.value.autoFailReason # ""
     /\ DOMAIN output.value.sections = {}
     /\ Len(output.value.insights) = 0

C6_Witness ==
  /\ output.op = "analyzeAgentResponse"
  /\ output.value.autoFailDetected
  /\ includes(toLowerCase(input.agentMessage), "understand")
  /\ input.customerMessage # ""
  /\ input.callContext # EmptyObject

\* C7: for every agent text, customer text and context the analysis has
\* 0 <= totalScore <= maxTotalScore = 100 and, for each section it reports,
\* 0 <= score <= the section's maxScore.
C7_ScoresInRange ==
  output.op = "analyzeAgentResponse" =>
     /\ output.value.maxTotalScore = 100
     /\ 0 <= output.value.totalScore
     /\ output.value.totalScore <= output.value.maxTotalScore
     /\ \A key \in DOMAIN output.value.sections :
           /\ 0 <= output.value.sections[key].score
           /\ output.value.sections[key].score <= output.value.sections[key].maxScore

C7_Witness ==
  /\ output.op = "analyzeAgentResponse"
  /\ DOMAIN output.value.sections = {"s1", "s2", "s3", "s4", "behaviors"}
  /\ output.value.totalScore > 0
  /\ \E key \in DOMAIN output.value.sections :
        \E c \in 1..Len(output.value.sections[key].criteria) :
           output.value.sections[key].criteria[c].justification = "Good"

SellResult ==
  /\ output.op = "analyzeSectionResponse"
  /\ output.section = "s3"

Truthy(obj, field) == field \in DOMAIN obj /\ obj[field] = TRUE

InapplicableShape ==
  /\ output.value.score = 0
  /\ output.value.applicable = FALSE
  /\ Len(output.value.criteria) = 1
  /\ output.value.criteria[1].name = "Section Not Applicable"

\* C8 as stated: the SELL section is applicable exactly when the context's
\* customer sentiment is not irate, context.authenticated holds and
\* context.optedOutOfSales does not; when inapplicable its result has score 0,
\* applicable false and a single synthetic criterion.
C8_Original ==
  SellResult =>
     /\ output.value.applicable =
          (/\ ~("customerType" \in DOMAIN input.callContext
                  /\ input.callContext.customerType = "irate")
           /\ Truthy(input.callContext, "authenticated")
           /\ ~Truthy(input.callContext, "optedOutOfSales"))
     /\ ~output.value.applicable => InapplicableShape

CustomerSoundsIrate(customerText) ==
  \E w \in {"angry", "furious", "terrible", "awful", "hate", "worst"} :
     includes(toLowerCase(customerText), w)

\* C8 amended: the SELL section is applicable exactly when the turn's customer
\* text contains none of angry, furious, terrible, awful, hate, worst (in any
\* letter case), context.authenticated is not false (absent counts as
\* authenticated) and context.optedOutOfSales is not true; when inapplicable its
\* result has score 0, applicable false and a single synthetic criterion.
C8_SellApplicability ==
  SellResult =>
     /\ output.value.applicable =
          (/\ ~CustomerSoundsIrate(input.customerMessage)
           /\ ~("authenticated" \in DOMAIN input.callContext
                  /\ input.callContext.authenticated = FALSE)
           /\ ~Truthy(input.callContext, "optedOutOfSales"))
     /\ ~output.value.applicable => InapplicableShape

C8_Witness ==
  /\ SellResult
  /\ "customerType" \in DOMAIN input.callContext
  /\ input.callContext.customerType = "irate"
  /\ output.value.applicable
  /\ output.value.score > 0

\* the least integer not below 0.6 * x
CeilSixTenths(x) == CHOOSE n \in 0..x : 10 * n >= 6 * x /\ 10 * (n - 1) < 6 * x

CriterionCalled == S4_SCORING_GUIDELINES[output.section].criteria[output.criterion]

MatchedKeywords ==
  Cardinality({k \in 1..Len(CriterionCalled.keywords) :
                 includes(toLowerCase(input.agentMessage),
                          toLowerCase(CriterionCalled.keywords[k]))})

\* C9: analyzeCriterion returns score 0 whenever a failure condition of the
\* criterion matches; otherwise, with m keyword matches out of k keywords, it
\* returns maxScore if m/k >= 0.5 or m >= 2, ceil(0.6 * maxScore) if m >= 1 (and
\* neither of the former), and 0 if m = 0.
C9_CriterionScore ==
  output.op = "analyzeCriterion" =>
     LET m == MatchedKeywords
         k == Len(CriterionCalled.keywords)
         failed == failureDetectedIn(CriterionCalled, toLowerCase(input.agentMessage),
                                     input.callContext)
     IN  output.value.score =
           IF failed THEN 0
           ELSE IF (k > 0 /\ 2 * m >= k) \/ m >= 2 THEN CriterionCalled.maxScore
           ELSE IF m >= 1 THEN CeilSixTenths(CriterionCalled.maxScore)
           ELSE 0

C9_Witness ==
  /\ output.op = "analyzeCriterion"
  /\ MatchedKeywords = 1
  /\ output.value.score = 5
  /\ CriterionCalled.maxScore = 7

(***************************************************************************)
(* Properties of the tracker                                               *)
(***************************************************************************)
Advanced == lastCall.op \in {"updateCallContext", "analyzeMessage"}

StageByTurnCount ==
  IF currentCallContext.turnCount \in 1..2 THEN currentCallContext.stage = "s1"
  ELSE IF currentCallContext.turnCount \in 3..6 THEN currentCallContext.stage = "s2"
  ELSE IF currentCallContext.turnCount \in 7..8 THEN currentCallContext.stage = "s3"
  ELSE IF currentCallContext.turnCount >= 9 THEN currentCallContext.stage = "s4"
  ELSE TRUE

\* C10 as stated: after every advance of the tracker the stage is determined
\* by turnCount alone: 1-2 START, 3-6 SOLVE, 7-8 SELL, 9 or more SUMMARIZE.
C10_Original == Advanced => StageByTurnCount

\* C10 amended: after every advance of the tracker whose additional context
\* sets neither stage nor turnCount, the stage is determined by turnCount
\* alone: 1-2 START, 3-6 SOLVE, 7-8 SELL, 9 or more SUMMARIZE.
C10_StageByTurnCount ==
  (/\ Advanced
   /\ "stage" \notin DOMAIN lastCall.additionalContext
   /\ "turnCount" \notin DOMAIN lastCall.additionalContext) => StageByTurnCount

C10_Witness ==
  /\ Advanced
  /\ DOMAIN lastCall.additionalContext = {"optedOutOfSales", "customField"}
  /\ currentCallContext.turnCount = 7
  /\ currentCallContext.stage = "s3"

AdvanceStep == lastCall'.op \in {"updateCallContext", "analyzeMessage"}

\* C11 as stated: once an advance has set authenticated to true, it is true
\* after every later advance.
C11_Original ==
  [][(AdvanceStep /\ currentCallContext.authenticated = TRUE) =>
       currentCallContext'.authenticated = TRUE]_vars

\* C11 amended: once an advance has set authenticated to true, it is true after
\* every later advance whose additional context does not set authenticated.
C11_AuthenticatedKept ==
  [][(/\ AdvanceStep
      /\ currentCallContext.authenticated = TRUE
      /\ "authenticated" \notin DOMAIN lastCall'.additionalContext) =>
       currentCallContext'.authenticated = TRUE]_vars

C11_Witness ==
  /\ Advanced
  /\ "authenticated" \notin DOMAIN lastCall.additionalContext
  /\ ~includes(toLowerCase(lastCall.agentMessage), "verify")
  /\ ~includes(toLowerCase(lastCall.agentMessage), "authenticate")
  /\ currentCallContext.authenticated = TRUE
  /\ currentCallContext.turnCount >= 3

SoundsIrate(customerText) ==
  \E w \in {"angry", "terrible", "hate"} : includes(toLowerCase(customerText), w)

SoundsSatisfied(customerText) ==
  \E w \in {"thank", "great", "good"} : includes(toLowerCase(customerText), w)

SentimentByText(before, customerText) ==
  IF customerText = "" THEN before
  ELSE IF SoundsIrate(customerText) THEN "irate"
  ELSE IF SoundsSatisfied(customerText) THEN "satisfied"
  ELSE before

\* C12 as stated: an advance leaves the sentiment irate when the customer text
\* has an irate word (whatever the sentiment was, and also when the text has a
\* satisfied word), satisfied when it has a satisfied word and no irate word,
\* and unchanged when the text is empty or has neither.
C12_Original ==
  [][AdvanceStep =>
       currentCallContext'.customerType =
         SentimentByText(currentCallContext.customerType, lastCall'.customerMessage)]_vars

\* C12 amended: the same, for every advance whose additional context does not
\* set the sentiment.
C12_SentimentByText ==
  [][(AdvanceStep /\ "customerType" \notin DOMAIN lastCall'.additionalContext) =>
       currentCallContext'.customerType =
         SentimentByText(currentCallContext.customerType, lastCall'.customerMessage)]_vars

C12_Witness ==
  /\ Advanced
  /\ "customerType" \notin DOMAIN lastCall.additionalContext
  /\ SoundsIrate(lastCall.customerMessage)
  /\ SoundsSatisfied(lastCall.customerMessage)
  /\ currentCallContext.customerType = "irate"
  /\ currentCallContext.turnCount >= 2

TrendReturned == output.op = "getQualityTrend"

ScoreAt(k) == qualityHistory[k].score

\* the first of the most recent three entries (of the two, when there are two)
FirstRecent == IF Len(qualityHistory) >= 3 THEN Len(qualityHistory) - 2 ELSE 1

\* C13: classifyTrend answers "insufficient_data" for fewer than two entries;
\* otherwise, with d the last score minus the first score of the most recent
\* three entries, "improving" when d > 5, "declining" when d < -5, and
\* "stable" in between.
C13_TrendOfRecentThree ==
  TrendReturned =>
    IF Len(qualityHistory) < 2
    THEN output.value.trend = "insufficient_data"
    ELSE LET d == ScoreAt(Len(qualityHistory)) - ScoreAt(FirstRecent)
         IN  /\ (d > 5) => output.value.trend = "improving"
             /\ (d < -5) => output.value.trend = "declining"
             /\ (d >= -5 /\ d <= 5) => output.value.trend = "stable"

C13_Witness ==
  /\ TrendReturned
  /\ Len(qualityHistory) = 4
  /\ ScoreAt(4) - ScoreAt(2) = 6
  /\ ScoreAt(4) - ScoreAt(1) < -5
  /\ output.value.trend = "improving"

CriteriaMaxSum(section) ==
  SumSeq([k \in 1..Len(section.criteria) |-> section.criteria[k].maxScore])

SectionReturned == output.op = "analyzeSectionResponse"

\* C14: in the rubric catalog the maximum scores of a section's criteria add up
\* to the section's maximum points, and the five section maxima are 22, 27, 20,
\* 14 and 17, which add up to 100; a scored section reports that maximum.
C14_RubricSums ==
  /\ \A k \in 1..Len(SectionKeys) :
       CriteriaMaxSum(S4_SCORING_GUIDELINES[SectionKeys[k]]) =
         S4_SCORING_GUIDELINES[SectionKeys[k]].maxPoints
  /\ [k \in 1..Len(SectionKeys) |-> S4_SCORING_GUIDELINES[SectionKeys[k]].maxPoints]
       = <<22, 27, 20, 14, 17>>
  /\ SumSeq([k \in 1..Len(SectionKeys) |->
               S4_SCORING_GUIDELINES[SectionKeys[k]].maxPoints]) = 100
  /\ (SectionReturned /\ output.value.applicable) =>
       /\ output.value.maxScore = S4_SCORING_GUIDELINES[output.section].maxPoints
       /\ CriteriaMaxSum(output.value) = output.value.maxScore

C14_Witness ==
  /\ SectionReturned
  /\ output.section = "s3"
  /\ output.value.applicable
  /\ Len(output.value.criteria) = 4
  /\ CriteriaMaxSum(output.value) = 20

ConsistentRubric(rubric) ==
  \A k \in 1..Len(SectionKeys) :
    CriteriaMaxSum(rubric[SectionKeys[k]]) = rubric[SectionKeys[k]].maxPoints

\* C15: a rubric in which the criteria maxima of some section do not add up to
\* the section's maximum points is rejected when the catalog is built: no turn
\* is ever scored against it.
C15_InconsistentRubricRejected ==
  (SectionReturned /\ "rubric" \in DOMAIN input) => ConsistentRubric(input.rubric)

TurnAnalyzed == output.op = "analyzeAgentResponse" /\ "outcome" \in DOMAIN output

\* C16: no public operation raises an error on an anomalous text (null, empty,
\* blank, overlong, special characters only): analyzeAgentResponse and
\* processAgentInteraction complete and score the turn as one without positive
\* evidence; an empty agent text gives a total score of 0, no auto-fail and at
\* least one improvement opportunity.
C16_NoErrorOnAnomalousText ==
  /\ TurnAnalyzed =>
       /\ ~output.outcome.threw
       /\ output.outcome.value.totalScore = 0
       /\ ~output.outcome.value.autoFailDetected
       /\ Len(output.outcome.value.opportunities) >= 1
  /\ lastCall.op = "processAgentInteraction" => lastCall.result # "TypeError"

SectionKeySet == {SectionKeys[k] : k \in 1..Len(SectionKeys)}

\* the turns of the reported call in which the section was analysed and applicable
ApplicableTurns(sectionKey) ==
  {i \in 1..Len(input) : /\ Has(input[i].sections, sectionKey)
                         /\ input[i].sections[sectionKey].applicable}

ScoreOver(turns, sectionKey) ==
  SumSeq([i \in 1..Len(input) |->
            IF i \in turns THEN input[i].sections[sectionKey].score ELSE 0])

MaxScoreOver(turns, sectionKey) ==
  SumSeq([i \in 1..Len(input) |->
            IF i \in turns THEN input[i].sections[sectionKey].maxScore ELSE 0])

\* C18: in the session report the average score and the percentage of a section
\* are taken over the turns in which the section was applicable only; a turn in
\* which SELL was inapplicable lowers neither.
C18_ApplicableTurnsOnly ==
  output.op = "analyzeSectionPerformance" =>
    \A key \in SectionKeySet :
      LET turns == ApplicableTurns(key)
          score == ScoreOver(turns, key)
          maxScore == MaxScoreOver(turns, key)
      IN  /\ output.value[key].averageScore =
               IF turns = {} THEN 0 ELSE RoundedRatio(score, Cardinality(turns))
          /\ output.value[key].percentage =
               IF maxScore > 0 THEN RoundedRatio(100 * score, maxScore) ELSE 0

AnalysedTurns(sectionKey) == {i \in 1..Len(input) : Has(input[i].sections, sectionKey)}

\* the percentage of a section exceeds (falls below) a mark
SectionExceeds(sectionKey, mark) ==
  100 * ScoreOver(AnalysedTurns(sectionKey), sectionKey) >
    mark * MaxScoreOver(AnalysedTurns(sectionKey), sectionKey)

SectionBelow(sectionKey, mark) ==
  100 * ScoreOver(AnalysedTurns(sectionKey), sectionKey) <
    mark * MaxScoreOver(AnalysedTurns(sectionKey), sectionKey)

\* C19: the promoter probability is 2 x (percentage - 60) kept within 0..100,
\* plus 15 when the START and the SUMMARIZE percentages both exceed 80, minus 20
\* when the BEHAVIORS percentage is below 60, and is reported as an integer
\* within 0..100.
C19_PromoterProbability ==
  output.op = "calculateBusinessMetrics" =>
    LET n == Len(input)
        total == SumSeq([i \in 1..n |-> input[i].totalScore])
        base == Min(100 * n, Max(0, 2 * (total - 60 * n)))
        bonus == IF SectionExceeds("s1", 80) /\ SectionExceeds("s4", 80) THEN 15 ELSE 0
        penalty == IF SectionBelow("behaviors", 60) \/ AnalysedTurns("behaviors") = {}
                   THEN 20 ELSE 0
    IN  /\ output.promoterProbability \in 0..100
        /\ output.promoterProbability =
             Min(100, Max(0, RoundedRatio(base + (bonus - penalty) * n, n)))

PlanReturned == output.op = "generatePersonalizedCoachingPlan"

BelowEighty == {key \in SectionKeySet : output.performance[key].percentage < 80}

FocusNames ==
  {output.value.focusAreas[i].section : i \in 1..Len(output.value.focusAreas)}

StrengthNames ==
  {output.value.strengths[i].section : i \in 1..Len(output.value.strengths)}

\* C20: the focus areas of the coaching plan are sections below 80 percent, at
\* most three of them and the lowest ones, in ascending order of percentage;
\* the strengths are exactly the sections at 80 percent or more; no section is
\* in both lists.
C20_FocusAreasAndStrengths ==
  PlanReturned =>
    LET focus == output.value.focusAreas
        perf == output.performance
    IN  /\ Len(focus) = Min(3, Cardinality(BelowEighty))
        /\ Cardinality(FocusNames) = Len(focus)
        /\ \A i \in 1..Len(focus) :
             \E key \in BelowEighty : /\ perf[key].name = focus[i].section
                                      /\ perf[key].percentage = focus[i].currentPerformance
        /\ \A i \in 1..Len(focus) : \A j \in i..Len(focus) :
             focus[i].currentPerformance <= focus[j].currentPerformance
        /\ \A key \in BelowEighty :
             perf[key].name \notin FocusNames =>
               \A i \in 1..Len(focus) :
                 focus[i].currentPerformance <= perf[key].percentage
        /\ StrengthNames = {perf[key].name : key \in SectionKeySet \ BelowEighty}
        /\ Len(output.value.strengths) = Cardinality(SectionKeySet \ BelowEighty)
        /\ FocusNames \cap StrengthNames = {}

C20_Witness ==
  /\ PlanReturned
  /\ Cardinality(BelowEighty) = 4
  /\ Len(output.value.focusAreas) = 3
  /\ Len(output.value.strengths) = 1
  /\ output.value.focusAreas[1].currentPerformance
       < output.value.focusAreas[3].currentPerformance
  /\ \E key \in BelowEighty :
       output.performance[key].percentage > output.value.focusAreas[3].currentPerformance

\* C21: startCall makes the session active with an empty turn history, a turn
\* count of 0, no stored report and the start time set; while a session is
\* active the end time kept from an earlier call is never earlier than the
\* start time.
C21_StartCallResets ==
  /\ lastCall.op = "startCall" =>
       /\ callActive
       /\ interactions = <<>>
       /\ currentInteraction = 0
       /\ finalReport = NoReport
       /\ callStartTime = now
  /\ (callActive /\ callEndReason # Null) => callEndTime >= callStartTime

\* C22: a report is stored exactly when the session has ended: endCall on an
\* active session (manual, natural ending or interaction limit) ends it, records
\* the end time and builds the report; while the session is active no report is
\* stored; a further endCall leaves the stored report as it is.
C22_ReportExactlyWhenEnded ==
  [][/\ (finalReport' # NoReport) <=> (~callActive' /\ calls' > 0)
     /\ (callActive /\ ~callActive') =>
          /\ callEndTime' = now'
          /\ finalReport'.callSummary.endTime = callEndTime'
          /\ finalReport'.interactions = interactions'
     /\ (~callActive /\ lastCall'.op = "endCall") => finalReport' = finalReport]_vars

C22_Witness ==
  /\ lastCall.op = "endCall"
  /\ ~lastCall.active
  /\ calls = 2
  /\ finalReport # NoReport
  /\ Len(finalReport.interactions) >= 1
  /\ finalReport.callSummary.endTime = callEndTime

AutoFailChecked == output.op = "checkAutoFailBehaviors"

\* the pattern families in the order of the claim, and which of them a text matches
AutoFailFamilies == <<"rudeness", "callAvoidance", "inappropriateTransfer">>

MatchesFamily(agentText, k) ==
  CASE k = 1 -> IsRude(agentText)
    [] k = 2 -> IsCallAvoidance(agentText)
    [] k = 3 -> IsInappropriateTransfer(agentText)

FamiliesMatched(agentText) == {k \in 1..3 : MatchesFamily(agentText, k)}

ReasonBegins(reason, prefix) ==
  Len(reason) >= Len(prefix) /\ SubSeq(reason, 1, Len(prefix)) = prefix

\* C23: checkAutoFail tries rudeness, then call avoidance, then inappropriate
\* transfer, and reports the first family that matches: a text matching several
\* is reported with the category and reason of the earliest, a text matching
\* none as not detected.
C23_FirstFamilyWins ==
  AutoFailChecked =>
    LET matched == FamiliesMatched(input.agentMessage)
        first == CHOOSE k \in matched : \A j \in matched : k <= j
    IN  IF matched = {}
        THEN output.value = [detected |-> FALSE, reason |-> "", type |-> ""]
        ELSE /\ output.value.detected
             /\ output.value.type = AutoFailFamilies[first]
             /\ ReasonBegins(output.value.reason,
                             CASE first = 1 -> "Rudeness"
                               [] first = 2 -> "Call avoidance"
                               [] first = 3 -> "Inappropriate transfer")

C23_Witness ==
  /\ AutoFailChecked
  /\ FamiliesMatched(input.agentMessage) = {2, 3}
  /\ output.value.type = "callAvoidance"

TurnScoredByAnalyzer ==
  /\ output.op = "analyzeAgentResponse"
  /\ "value" \in DOMAIN output
  /\ ~output.value.autoFailDetected

\* the section scored below 80 percent of its maximum
BelowFourFifths(section) == 5 * section.score < 4 * section.maxScore

\* C24: a turn that is not auto-failed has exactly one next-step hint: a START
\* hint when START scored below 80 percent of its maximum; else a SOLVE hint
\* when SOLVE did; else a SELL hint when SELL is applicable and did; else a
\* SUMMARIZE hint.
C24_OneHintByFirstCondition ==
  TurnScoredByAnalyzer =>
    LET sections == output.value.sections
        hints == output.value.nextStepHints
    IN  /\ Len(hints) = 1
        /\ hints[1].stage =
             IF BelowFourFifths(sections.s1) THEN "START"
             ELSE IF BelowFourFifths(sections.s2) THEN "SOLVE"
             ELSE IF sections.s3.applicable /\ BelowFourFifths(sections.s3) THEN "SELL"
             ELSE "SUMMARIZE"

C24_Witness ==
  /\ TurnScoredByAnalyzer
  /\ ~BelowFourFifths(output.value.sections.s1)
  /\ ~BelowFourFifths(output.value.sections.s2)
  /\ ~output.value.sections.s3.applicable
  /\ BelowFourFifths(output.value.sections.s3)
  /\ output.value.nextStepHints[1].stage = "SUMMARIZE"

\* the criterion of the catalog a direct call of analyzeCriterion was given
CriterionAnalysed ==
  S4_SCORING_GUIDELINES[output.section].criteria[output.criterion]

\* C29: a criterion that defines no keywords scores 0 for every utterance; the
\* BEHAVIORS section, three of whose five criteria define no keywords, never
\* scores above 8 of 17, and no turn's totalScore exceeds 91.
C29_KeywordlessCriteriaScoreZero ==
  /\ Cardinality({c \in 1..Len(Guideline_behaviors.criteria) :
                    Len(Guideline_behaviors.criteria[c].keywords) = 0}) = 3
  /\ Len(Guideline_behaviors.criteria) = 5
  /\ (output.op = "analyzeCriterion" /\ Len(CriterionAnalysed.keywords) = 0) =>
       output.value.score = 0
  /\ (output.op = "analyzeSectionResponse" /\ output.section = "behaviors") =>
       /\ output.value.score <= 8
       /\ output.value.maxScore = 17
  /\ output.op = "analyzeAgentResponse" =>
       /\ output.value.totalScore <= 91
       /\ ~output.value.autoFailDetected =>
            /\ output.value.sections.behaviors.score <= 8
            /\ \A c \in 1..3 : output.value.sections.behaviors.criteria[c].score = 0

C29_Witness ==
  /\ TurnScoredByAnalyzer
  /\ input.agentMessage = OwnershipAndConcern
  /\ output.value.sections.behaviors.score = 8
  /\ output.value.sections.behaviors.criteria[1].score = 0
  /\ output.value.totalScore > 8

(***************************************************************************)
(* Properties of the voice I/O service                                     *)
(***************************************************************************)
StartsSilenceTimer ==
  {"onstart", "onresult", "startSilenceTimer", "resetSilenceTimer"}

\* C25: starting or resetting the silence timer cancels the timeout that was
\* pending, so at most one silence timeout is pending at any time; an expiry
\* while recognition is active stops recognition and passes exactly one empty
\* text to the result callback, and an expiry while recognition is not active
\* passes nothing to it.
C25_OneSilenceTimer ==
  [][/\ Cardinality(pendingTimers') <= 1
     /\ lastCall'.op \in StartsSilenceTimer =>
          /\ pendingTimers' = {silenceTimer'}
          /\ silenceTimer' \notin pendingTimers
     /\ lastCall'.op = "silenceTimeout" =>
          IF isRecognizing
          THEN /\ results' = Append(results, "")
               /\ recognition' \notin {"starting", "listening"}
               /\ pendingTimers' = {}
          ELSE results' = results]_vars

C25_Witness ==
  /\ lastCall.op = "silenceTimeout"
  /\ ~lastCall.active
  /\ results = <<"I need help", "">>
  /\ timersCreated = 3
  /\ pendingTimers = {}

(***************************************************************************)
(* Properties of the session together with its tracker                     *)
(***************************************************************************)
\* C26: in every state, the one left by a processAgentInteraction that ended
\* with an exception included, the session stores as many interactions as its
\* turn counter says, and the k-th stored interaction carries the number k.
C26_RecordsMatchCounter ==
  /\ Len(interactions) = currentInteraction
  /\ \A k \in 1..Len(interactions) : interactions[k].number = k

\* C27: after any sequence of startCall, processAgentInteraction and endCall,
\* a second startCall on the same session included, the tracker's turnCount
\* equals the session's turn counter and the tracker's stage is the stage the
\* session derives for that turn.
C27_TrackerFollowsSession ==
  /\ currentCallContext.turnCount = currentInteraction
  /\ currentCallContext.stage = determineCallStage(currentInteraction)

(***************************************************************************)
(* Properties of the business metrics                                      *)
(***************************************************************************)
SameQuotient(a, b) == a.num * b.den = b.num * a.den

\* the promoter probability the percentages of the section breakdown give
PromoterProbabilityByBreakdown(analyses) ==
  LET n == Len(analyses)
      total == SumSeq([i \in 1..n |-> analyses[i].totalScore])
      s1 == SectionPercentage(analyses, "s1")
      s4 == SectionPercentage(analyses, "s4")
      behaviors == SectionPercentage(analyses, "behaviors")
      bonus == IF s1.num > 80 * s1.den /\ s4.num > 80 * s4.den THEN 15 ELSE 0
      penalty == IF behaviors.num < 60 * behaviors.den THEN 20 ELSE 0
  IN  Min(100, Max(0, RoundedRatio(Max(0, 2 * (total - 60 * n)) + (bonus - penalty) * n, n)))

\* C28: for every ended session, auto-failed turns included, the business
\* metrics are those the unrounded section percentages of the report's section
\* breakdown give: the resolution rate is the SOLVE percentage, first-call
\* resolution is that percentage exceeding 80, the sales opportunity is the SELL
\* percentage exceeding 70, and the promoter bonus and penalty follow the START,
\* SUMMARIZE and BEHAVIORS percentages.
C28_MetricsFollowBreakdown ==
  output.op = "calculateBusinessMetrics" =>
    LET s2 == SectionPercentage(input, "s2")
        s3 == SectionPercentage(input, "s3")
    IN  /\ SameQuotient(output.resolutionRate, WithinHundred(s2))
        /\ output.firstCallResolution = (s2.num > 80 * s2.den)
        /\ output.salesOpportunity = (s3.num > 70 * s3.den)
        /\ output.promoterProbability = PromoterProbabilityByBreakdown(input)

(***************************************************************************)
(* Properties of the section trends                                        *)
(***************************************************************************)
TrendsReported == output.op = "sectionTrends"

\* C30: for a session of at most three analysed turns every section's trend is
\* "stable"; with four turns or more a section's trend is "improving" exactly
\* when the average of its last three scores exceeds the average of its first
\* three by more than 2, "declining" exactly when it falls short of it by more
\* than 2, and "stable" otherwise.
C30_TrendByAverages ==
  TrendsReported =>
    \A sectionKey \in SectionKeySet :
       LET scores == SectionScoresOf(input, sectionKey)
           difference == SumSeq(LastThree(scores)) - SumSeq(FirstThree(scores))
       IN  output.value[sectionKey] =
             IF Len(input) <= 3 THEN "stable"
             ELSE IF difference > 6 THEN "improving"
             ELSE IF difference < -6 THEN "declining"
             ELSE "stable"

====
